---------------------------- MODULE Spec2Model ----------------------------
(***************************************************************************)
(* Verification model of the Paint automation layer: the coordinate        *)
(* mapping of talk2mcp.execute_tool, the canvas heuristics, the clamps of  *)
(* tools/paint_commands.py, the drag sequences with their error paths and  *)
(* the calibration store of enhanced_calibrate.py.                         *)
(***************************************************************************)
EXTENDS Integers, Sequences, FiniteSets, TLC

VARIABLES
    fn,     \* geometry harness: the function applied last ("none" before any)
    arg,    \* geometry harness: its inputs
    out,    \* geometry harness: what it computed
    window,                 \* outer rectangle of the Paint window, or NoWindow
    CANVAS_X, CANVAS_Y, CANVAS_WIDTH, CANVAS_HEIGHT, WINDOW_FOUND, \* talk2mcp globals
    CALIBRATED_POSITIONS,   \* talk2mcp global: label -> calibrated point
    call,                   \* the function call in progress or just finished
    pc,                     \* index of its next step
    status,                 \* "idle", "running", "handler", "returned", "raised"
    events,                 \* input events the call has emitted so far
    buttonDown,             \* the simulated left mouse button is held
    shiftDown,              \* the simulated Shift key is held
    result,                 \* the call's return value: "True", "False", "none"
    screen,                 \* pyautogui.size() of the calibration session
    positions,              \* PaintCalibrator.positions: label -> point
    sample,                 \* the capture just taken by get_mouse_position
    files,                  \* the files the calibration store reads and writes
    saved,                  \* the last profile save_profile wrote
    loaded,                 \* what the last loader call returned
    batch,                  \* the lines of the response process_llm_response reads
    line,                   \* the index of the line it is at
    executed_commands,      \* its counter of TOOL lines met
    successful_commands,    \* its counter of commands that returned True
    outcomes,               \* per line read: "True", "False" or "none"
    batch_result,           \* its return value: "True", "False", "none"
    focus_fn,               \* the window open/focus function being run, or "none"
    fpc,                    \* where it is: "ensure", "launch", "enum", "focus", "done"
    attempt,                \* focus attempts made by the focus loop being run
    round,                  \* open_paint: 0 before the launch, then the round it is in
    paint_running,          \* a Paint window exists
    foreground,             \* the Paint window is the foreground window
    waits,                  \* open_paint: the seconds slept between its rounds
    focus_result            \* the function's return value: "True", "False", "none"

geomVars == <<fn, arg, out>>

canvasVars == <<CANVAS_X, CANVAS_Y, CANVAS_WIDTH, CANVAS_HEIGHT, WINDOW_FOUND>>

runVars ==
    <<window, canvasVars, CALIBRATED_POSITIONS, call, pc, status, events,
      buttonDown, shiftDown, result>>

calibVars == <<screen, positions, sample, files, saved, loaded>>

batchVars == <<batch, line, executed_commands, successful_commands, outcomes,
               batch_result>>

focusVars ==
    <<focus_fn, fpc, attempt, round, paint_running, foreground, waits, focus_result>>

vars == <<geomVars, runVars, calibVars, batchVars, focusVars>>

\* What the actions of one part of the model leave alone.
OutsideGeom == UNCHANGED <<runVars, calibVars, batchVars, focusVars>>

OutsideRun == UNCHANGED <<geomVars, calibVars, batchVars, focusVars>>

OutsideCalib == UNCHANGED <<geomVars, runVars, batchVars, focusVars>>

---------------------------------------------------------------------------
(* Python arithmetic *)

Min(a, b) == IF a <= b THEN a ELSE b

Max(a, b) == IF a >= b THEN a ELSE b

Abs(a) == IF a >= 0 THEN a ELSE -a

\* int(n / d) for d > 0: Python's int() truncates towards zero.
Trunc(n, d) == IF n >= 0 THEN n \div d ELSE -((-n) \div d)

\* str.lower() on the shape names the model feeds in.
Lower(s) ==
    CASE s = "Circle" -> "circle"
      [] s = "Blue" -> "blue"
      [] OTHER -> s

Box(sx, sy, ex, ey) == [sx |-> sx, sy |-> sy, ex |-> ex, ey |-> ey]

---------------------------------------------------------------------------
(* Bounds of the model *)

\* Normalized inputs are taken on a grid of GridN intervals over 0..1000.
GridN == 2

\* Clamp probes reach Spread steps of ProbeStep pixels around each canvas edge.
Spread == 2

ProbeStep == 5

---------------------------------------------------------------------------
(* Window rectangles (l, t, r, b) that win32gui.GetWindowRect can report *)

Rect(l, t, r, b) == [l |-> l, t |-> t, r |-> r, b |-> b]

Windows ==
    { Rect(0, 0, 1920, 1080),              \* full-screen window at the origin
      Rect(45, 10, 1915, 1100),            \* restored window
      Rect(-8, -8, 1928, 1048),            \* maximized window (borders off screen)
      Rect(100, 100, 180, 220),            \* window smaller than the chrome margins
      Rect(-32000, -32000, -31840, -31972) \* minimized window
    }

---------------------------------------------------------------------------
(* talk2mcp.py: canvas globals and the draw_shape coordinate pipeline *)

Canvas(x, y, w, h) == [x |-> x, y |-> y, w |-> w, h |-> h]

\* update_canvas_dimensions, the callback's assignments for a Paint window.
update_canvas_dimensions(rect) ==
    Canvas(Max(rect.l + 5, 0),
           Max(rect.t + 150, 0),
           Max(rect.r - rect.l - 30, 100),
           Max(rect.b - rect.t - 200, 100))

\* Normalized correction of a circle: per-axis radii (a slip that keeps the
\* box centred but not square).
circle_normalize_per_axis(b) ==
    LET center_x == (b.sx + b.ex) \div 2
        center_y == (b.sy + b.ey) \div 2
        rx == Abs(b.ex - b.sx) \div 2
        ry == Abs(b.ey - b.sy) \div 2
    IN  Box(center_x - rx, center_y - ry, center_x + rx, center_y + ry)

\* Normalized correction of a circle taking the larger span.
circle_normalize_larger(b) ==
    LET center_x == (b.sx + b.ex) \div 2
        center_y == (b.sy + b.ey) \div 2
        radius == Max(Abs(b.ex - b.sx), Abs(b.ey - b.sy)) \div 2
    IN  Box(center_x - radius, center_y - radius,
            center_x + radius, center_y + radius)

\* execute_tool, draw_shape: "Special handling for circles".
circle_radius(b) == Min(Abs(b.ex - b.sx), Abs(b.ey - b.sy)) \div 2

circle_normalize(b) ==
    LET center_x == (b.sx + b.ex) \div 2
        center_y == (b.sy + b.ey) \div 2
        radius == circle_radius(b)
    IN  Box(center_x - radius, center_y - radius,
            center_x + radius, center_y + radius)

\* Scaling that rounds to nearest instead of truncating.
to_screen_rounded(origin, v, extent) ==
    Trunc(1000 * origin + v * extent + 500, 1000)

\* execute_tool: int(CANVAS_X + (rel * CANVAS_WIDTH / 1000)).
to_screen(origin, v, extent) == Trunc(1000 * origin + v * extent, 1000)

scale_box(c, b) ==
    Box(to_screen(c.x, b.sx, c.w), to_screen(c.y, b.sy, c.h),
        to_screen(c.x, b.ex, c.w), to_screen(c.y, b.ey, c.h))

\* An "inset" that nudges a value near the edge by 10 instead of clamping it.
clamp_inset_nudge(v, lo, hi) ==
    IF v < lo + 10 THEN v + 10 ELSE IF v > hi - 10 THEN v - 10 ELSE v

\* execute_tool: max(lo + 10, min(v, hi - 10)), "within safe bounds".
clamp_inset(v, lo, hi) == Max(lo + 10, Min(v, hi - 10))

clamp_box(c, b) ==
    Box(clamp_inset(b.sx, c.x, c.x + c.w), clamp_inset(b.sy, c.y, c.y + c.h),
        clamp_inset(b.ex, c.x, c.x + c.w), clamp_inset(b.ey, c.y, c.y + c.h))

\* Post-clamp correction left out.
circle_post_clamp_skipped(b) == b

\* Post-clamp correction taking the larger side.
circle_post_clamp_larger(b) ==
    LET size == Max(b.ex - b.sx, b.ey - b.sy)
        center_x == (b.sx + b.ex) \div 2
        center_y == (b.sy + b.ey) \div 2
    IN  Box(center_x - size \div 2, center_y - size \div 2,
            center_x + size \div 2, center_y + size \div 2)

\* execute_tool: "ensure the aspect ratio remains 1:1 after bounds checking".
circle_post_clamp(b) ==
    LET width == b.ex - b.sx
        height == b.ey - b.sy
        size == Min(width, height)
        center_x == (b.sx + b.ex) \div 2
        center_y == (b.sy + b.ey) \div 2
    IN  Box(center_x - size \div 2, center_y - size \div 2,
            center_x + size \div 2, center_y + size \div 2)

\* The normalized box execute_tool scales: corrected for circles only.
rel_box(shape_type, b) ==
    IF shape_type = "circle" THEN circle_normalize(b) ELSE b

\* The screen box after the second aspect correction.
post_clamp_box(shape_type, b) ==
    IF shape_type = "circle" THEN circle_post_clamp(b) ELSE b

\* The whole coordinate pipeline of a draw_shape command.
draw_shape_coords(shape, c, b) ==
    LET shape_type == Lower(shape)
        rel == rel_box(shape_type, b)
        raw == scale_box(c, rel)
        clamped == clamp_box(c, raw)
    IN  [shape_type |-> shape_type, rel |-> rel, raw |-> raw,
         clamped |-> clamped, pt |-> post_clamp_box(shape_type, clamped)]


---------------------------------------------------------------------------
(* final_paint_tester.py: canvas bounds from the window rectangle *)

Bounds(left, top, right, bottom) ==
    [left |-> left, top |-> top, right |-> right, bottom |-> bottom]

\* The ribbon height left out of the top margin.
get_canvas_info_no_ribbon(rect) ==
    Bounds(rect.l + 50, rect.t + 30, rect.r - 30, rect.b - 30)

\* get_canvas_info, for a window that find_paint_window found.
get_canvas_info(rect) ==
    LET title_height == 30
        ribbon_height == 130
        status_height == 30
        left_margin == 50
        right_margin == 30
    IN  Bounds(rect.l + left_margin, rect.t + title_height + ribbon_height,
               rect.r - right_margin, rect.b - status_height)

---------------------------------------------------------------------------
(* tools/paint_commands.py: canvas info and the clamps of the draw functions *)

\* get_paint_canvas_info: canvas_dict for a window that was found.
get_paint_canvas_info(rect) ==
    LET win_width == rect.r - rect.l
        title_height == 32
        ribbon_height == 93
        status_height == 26
        left_margin == 10
        right_margin == Trunc(win_width, 4)     \* int(win_width * 0.25)
        canvas_left == rect.l + left_margin
        canvas_top == rect.t + title_height + ribbon_height
        canvas_right == rect.r - right_margin
        canvas_bottom == rect.b - status_height
    IN  [left |-> canvas_left, top |-> canvas_top,
         right |-> canvas_right, bottom |-> canvas_bottom,
         width |-> canvas_right - canvas_left,
         height |-> canvas_bottom - canvas_top]

\* validate_coordinates: all four coordinates inside the canvas rectangle.
validate_coordinates(b, ci) ==
    /\ b.sx >= ci.left /\ b.sx <= ci.right
    /\ b.sy >= ci.top /\ b.sy <= ci.bottom
    /\ b.ex >= ci.left /\ b.ex <= ci.right
    /\ b.ey >= ci.top /\ b.ey <= ci.bottom

\* draw_shape, step 3: coordinates that fail validation are moved onto the
\* canvas boundary.
draw_shape_clamp(b, ci) ==
    IF validate_coordinates(b, ci)
    THEN b
    ELSE Box(Max(ci.left, Min(b.sx, ci.right)), Max(ci.top, Min(b.sy, ci.bottom)),
             Max(ci.left, Min(b.ex, ci.right)), Max(ci.top, Min(b.ey, ci.bottom)))

\* draw_rectangle, step 4: when any coordinate is outside the canvas, all four
\* are clamped 10 pixels inside it.
draw_rectangle_clamp(b, ci) ==
    IF validate_coordinates(b, ci)
    THEN b
    ELSE Box(Max(ci.left + 10, Min(b.sx, ci.right - 10)),
             Max(ci.top + 10, Min(b.sy, ci.bottom - 10)),
             Max(ci.left + 10, Min(b.ex, ci.right - 10)),
             Max(ci.top + 10, Min(b.ey, ci.bottom - 10)))

\* The canvas globals of talk2mcp seen as a canvas rectangle.
canvas_rect(c) ==
    [left |-> c.x, top |-> c.y, right |-> c.x + c.w, bottom |-> c.y + c.h,
     width |-> c.w, height |-> c.h]

---------------------------------------------------------------------------
(* Input sequences: each function body as the sequence of its pyautogui    *)
(* calls and of its calls into paint_commands, run one step at a time.     *)

NoWindow == Rect(0, 0, -1, -1)

\* What SW_MAXIMIZE leaves on a 1920 x 1080 display.
Maximized == Rect(-8, -8, 1928, 1048)

SessionWindows == {Rect(0, 0, 1920, 1080), Maximized, Rect(100, 100, 180, 220)}

NoCall == [fn |-> "none", shape |-> "", box |-> Box(0, 0, 0, 0)]

Call(f, shape, b) == [fn |-> f, shape |-> shape, box |-> b]

Prim(op, x, y) == [op |-> op, x |-> x, y |-> y, val |-> ""]

Return(v) == [op |-> "return", x |-> 0, y |-> 0, val |-> v]

\* pyautogui calls: each checks the fail-safe and can raise.
PointerOps ==
    {"moveTo", "moveRel", "highlight", "click", "mouseDown", "mouseUp",
     "keyDown", "keyUp", "press", "hotkey", "screenshot", "write"}

\* Calls into paint_commands that catch their own exceptions and report a
\* boolean (or None).
ExternalOps == {"focus", "find_window", "canvas", "select_shape"}

\* Calibration profiles a session may have loaded (label -> point).
FullProfile ==
    [l \in {"rectangle", "oval", "five point star", "select", "text tool",
            "red", "indigo"} |->
        CASE l = "rectangle" -> <<400, 80>>
          [] l = "oval" -> <<440, 80>>
          [] l = "five point star" -> <<480, 100>>
          [] l = "select" -> <<150, 90>>
          [] l = "text tool" -> <<260, 85>>
          [] l = "red" -> <<900, 60>>
          [] l = "indigo" -> <<980, 60>>]

Restrict(f, S) == [l \in S |-> f[l]]

Profiles ==
    { FullProfile,
      Restrict(FullProfile, {"rectangle", "oval", "five point star", "text tool",
                             "red", "indigo"}),
      Restrict(FullProfile, {"rectangle", "select", "red"}) }

\* execute_tool, draw_shape: shape_map.get(shape_type, shape_type).
shape_map(shape_type) ==
    CASE shape_type = "circle" -> "oval"
      [] shape_type = "star" -> "five point star"
      [] OTHER -> shape_type

\* execute_tool, draw_shape: the deselect sub-sequence.
deselect_steps(c, pos) ==
    IF "select" \in DOMAIN pos
    THEN << Prim("moveTo", pos["select"][1], pos["select"][2]),
            Prim("click", pos["select"][1], pos["select"][2]),
            Prim("moveTo", c.x + 20, c.y + 20),
            Prim("click", c.x + 20, c.y + 20),
            Prim("moveTo", c.x + 50, c.y + 50) >>
    ELSE << >>

\* execute_tool, draw_shape, from the calibration lookup to the return.
exec_draw_shape_program(cl, c, pos) ==
    LET k == draw_shape_coords(cl.shape, c, cl.box)
        calibrated_shape == shape_map(k.shape_type)
        circle == k.shape_type = "circle"
        centre_x == c.x + (c.w \div 2)
        centre_y == c.y + (c.h \div 2)
    IN  IF calibrated_shape \notin DOMAIN pos
        THEN << Return("False") >>
        ELSE << Prim("moveTo", pos[calibrated_shape][1], pos[calibrated_shape][2]),
                Prim("click", pos[calibrated_shape][1], pos[calibrated_shape][2]) >>
             \o (IF circle THEN << Prim("keyDown", 0, 0) >> ELSE << >>)
             \o << Prim("moveTo", centre_x, centre_y),
                   Prim("click", centre_x, centre_y),
                   Prim("moveTo", k.pt.sx, k.pt.sy),
                   Prim("mouseDown", k.pt.sx, k.pt.sy),
                   Prim("moveTo", k.pt.ex, k.pt.ey),
                   Prim("mouseUp", k.pt.ex, k.pt.ey) >>
             \o (IF circle THEN << Prim("keyUp", 0, 0) >> ELSE << >>)
             \o deselect_steps(c, pos)
             \o << Return("True") >>

\* execute_tool, select_color: color_map.get(color_name, color_name).
color_map_identity(color_name) == color_name

color_map(color_name) ==
    CASE color_name = "blue" -> "indigo"
      [] color_name = "light blue" -> "torquoise"
      [] color_name = "dark blue" -> "blue grey"
      [] color_name = "light green" -> "lime"
      [] color_name = "violet" -> "lavender"
      [] color_name = "pink" -> "rose"
      [] color_name = "black" -> "black color"
      [] color_name \in {"gray", "grey"} -> "gray-50%"
      [] color_name \in {"light gray", "light grey"} -> "grey-25%"
      [] OTHER -> color_name

\* execute_tool, select_color; the call's shape field holds color_name.
exec_select_color_program(cl, pos) ==
    LET calibrated_color == color_map(Lower(cl.shape))
    IN  IF calibrated_color \notin DOMAIN pos
        THEN << Return("False") >>
        ELSE << Prim("moveTo", pos[calibrated_color][1], pos[calibrated_color][2]),
                Prim("click", pos[calibrated_color][1], pos[calibrated_color][2]),
                Return("True") >>

\* execute_tool, add_text_in_paint: the screen point of (x, y).
add_text_point(c, x, y) ==
    [x |-> clamp_inset(to_screen(c.x, x, c.w), c.x, c.x + c.w),
     y |-> clamp_inset(to_screen(c.y, y, c.h), c.y, c.y + c.h)]

\* execute_tool, add_text_in_paint; the call's box holds (x, y).
exec_add_text_program(cl, c, pos) ==
    LET pt == add_text_point(c, cl.box.sx, cl.box.sy)
    IN  IF "text tool" \notin DOMAIN pos
        THEN << Return("False") >>
        ELSE << Prim("moveTo", pos["text tool"][1], pos["text tool"][2]),
                Prim("click", pos["text tool"][1], pos["text tool"][2]),
                Prim("moveTo", pt.x, pt.y),
                Prim("click", pt.x, pt.y),
                Prim("write", 0, 0) >>
             \o deselect_steps(c, pos)
             \o << Return("True") >>

\* CALIBRATED_POSITIONS when load_paint_positions() returned None.
NoProfile == [none |-> TRUE]

\* The label of a call whose params hold no entry for a key read as
\* params[key].
MissingParam == "<missing>"

\* Steps that always raise: params[key] without the key, and "x in None".
FailingOps == {"KeyError", "TypeError"}

\* The branch of execute_tool that falls through every elif.
execute_tool_else_absent == "none"

\* else: print("Unknown tool: ..."); return False.
execute_tool_else == "False"

\* execute_tool from the first statement of the branch that can raise:
\* params['color_name'] and params['path'] raise KeyError without the key,
\* and the first membership test on CALIBRATED_POSITIONS raises TypeError
\* when it is None.
execute_tool_program(cl, c, pos) ==
    IF cl.shape = MissingParam THEN << Prim("KeyError", 0, 0) >>
    ELSE IF pos = NoProfile THEN << Prim("TypeError", 0, 0) >>
    ELSE CASE cl.fn = "execute_tool.draw_shape" -> exec_draw_shape_program(cl, c, pos)
           [] cl.fn = "execute_tool.select_color" -> exec_select_color_program(cl, pos)
           [] OTHER -> exec_add_text_program(cl, c, pos)

\* paint_commands.draw_shape(start_x, start_y, end_x, end_y, shape_type).
paint_draw_shape_program(cl, w) ==
    LET ci == get_paint_canvas_info(w)
        b == draw_shape_clamp(cl.box, ci)
        mid_x == ci.left + (ci.width \div 2)
    IN  << Prim("focus", 0, 0), Prim("canvas", 0, 0), Prim("select_shape", 0, 0),
           Prim("moveTo", mid_x, ci.top + (ci.height \div 2)),
           Prim("highlight", b.sx, b.sy),
           Prim("moveTo", b.sx, b.sy),
           Prim("mouseDown", b.sx, b.sy),
           Prim("moveTo", b.ex, b.ey),
           Prim("mouseUp", b.ex, b.ey),
           Prim("moveTo", mid_x, ci.top - 50),
           Return("True") >>

\* draw_rectangle, step 3: coordinates below 1000 are taken relative to the
\* canvas.
draw_rectangle_screen(b, ci) ==
    IF Max(Max(b.sx, b.sy), Max(b.ex, b.ey)) < 1000
    THEN Box(ci.left + b.sx, ci.top + b.sy, ci.left + b.ex, ci.top + b.ey)
    ELSE b

\* paint_commands.draw_rectangle(x1, y1, x2, y2).
paint_draw_rectangle_program(cl, w) ==
    LET ci == get_paint_canvas_info(w)
        b == draw_rectangle_clamp(draw_rectangle_screen(cl.box, ci), ci)
        centre_x == (ci.left + ci.right) \div 2
        centre_y == (ci.top + ci.bottom) \div 2
    IN  << Prim("focus", 0, 0), Prim("canvas", 0, 0), Prim("screenshot", 0, 0),
           Prim("select_shape", 0, 0),
           Prim("moveTo", centre_x, centre_y),
           Prim("moveTo", b.sx, b.sy),
           Prim("moveRel", 5, 0), Prim("moveRel", 0, 5),
           Prim("moveRel", -5, 0), Prim("moveRel", 0, -5),
           Prim("moveTo", b.sx, b.sy),
           Prim("mouseDown", b.sx, b.sy),
           Prim("moveTo", b.ex, b.sy),
           Prim("moveTo", b.ex, b.ey),
           Prim("mouseUp", b.ex, b.ey),
           Prim("moveTo", centre_x, centre_y - 50),
           Prim("screenshot", 0, 0),
           Prim("verify", 0, 0) >>

\* paint_commands.draw_circle(x, y, radius); the call's box is the square
\* (x - radius, y - radius, x + radius, y + radius).
\* The circle dragged a second time before the captures are compared.
paint_draw_circle_program_redrawn(cl, w) ==
    LET ci == get_paint_canvas_info(w)
        b == cl.box
        centre_x == ci.left + (ci.width \div 2)
        centre_y == ci.top + (ci.height \div 2)
    IN  << Prim("focus", 0, 0), Prim("screenshot", 0, 0),
           Prim("select_shape", 0, 0), Prim("canvas", 0, 0),
           Prim("moveTo", centre_x, centre_y),
           Prim("moveTo", b.sx, b.sy),
           Prim("mouseDown", b.sx, b.sy),
           Prim("moveTo", b.ex, b.ey),
           Prim("mouseUp", b.ex, b.ey),
           Prim("moveTo", b.sx, b.sy),
           Prim("mouseDown", b.sx, b.sy),
           Prim("moveTo", b.ex, b.ey),
           Prim("mouseUp", b.ex, b.ey),
           Prim("moveTo", centre_x, centre_y),
           Prim("screenshot", 0, 0),
           Prim("verify", 0, 0) >>

paint_draw_circle_program(cl, w) ==
    LET ci == get_paint_canvas_info(w)
        b == cl.box
        outside == \/ b.sx < ci.left \/ b.sy < ci.top
                   \/ b.ex > ci.left + ci.width \/ b.ey > ci.top + ci.height
        centre_x == ci.left + (ci.width \div 2)
        centre_y == ci.top + (ci.height \div 2)
        head == << Prim("focus", 0, 0), Prim("screenshot", 0, 0),
                   Prim("select_shape", 0, 0), Prim("canvas", 0, 0) >>
    IN  IF outside
        THEN head \o << Return("False") >>
        ELSE head \o
             << Prim("moveTo", centre_x, centre_y),
                Prim("moveTo", b.sx, b.sy),
                Prim("mouseDown", b.sx, b.sy),
                Prim("moveTo", b.ex, b.ey),
                Prim("mouseUp", b.ex, b.ey),
                Prim("moveTo", centre_x, centre_y),
                Prim("screenshot", 0, 0),
                Prim("verify", 0, 0) >>

\* paint_commands.draw_text(x, y, text); the call's box holds (x, y). The
\* canvas info unpacks as (left, top, width, height) into the names
\* canvas_left, canvas_top, canvas_right, canvas_bottom.
paint_draw_text_program(cl, w) ==
    LET ci == get_paint_canvas_info(w)
        x == cl.box.sx
        y == cl.box.sy
        canvas_left == ci.left
        canvas_top == ci.top
        canvas_right == ci.width
        canvas_bottom == ci.height
        text_tool_x == Trunc(1920, 5)             \* int(size().width * 0.20)
        away_x == IF x + 50 > canvas_right THEN x - 50 ELSE x + 50
        away_y == IF y + 50 > canvas_bottom THEN y - 50 ELSE y + 50
        head == << Prim("focus", 0, 0), Prim("canvas", 0, 0) >>
    IN  IF ~(canvas_left <= x /\ x <= canvas_right /\ canvas_top <= y /\ y <= canvas_bottom)
        THEN head \o << Return("False") >>
        ELSE head \o
             << Prim("moveTo", text_tool_x, 75),
                Prim("click", text_tool_x, 75),
                Prim("moveTo", x, y),
                Prim("click", x, y),
                Prim("write", x, y),
                Prim("moveTo", away_x, away_y),
                Prim("click", away_x, away_y),
                Return("True") >>

\* draw_direct_rectangle: coordinates are canvas-relative when x1 and y1 are
\* below 1000.
draw_direct_rectangle_screen(b, ci) ==
    IF b.sx < 1000 /\ b.sy < 1000
    THEN Box(ci.left + b.sx, ci.top + b.sy, ci.left + b.ex, ci.top + b.ey)
    ELSE b

\* paint_commands.draw_direct_rectangle(x1, y1, x2, y2).
paint_draw_direct_rectangle_program(cl, w) ==
    LET ci == get_paint_canvas_info(w)
        b == draw_rectangle_clamp(draw_direct_rectangle_screen(cl.box, ci), ci)
        shape_x == w.l + Trunc((w.r - w.l) * 33, 100)
        shape_y == w.t + 75
        wiggle == << Prim("moveTo", b.sx + 3, b.sy), Prim("moveTo", b.sx, b.sy + 3),
                     Prim("moveTo", b.sx - 3, b.sy), Prim("moveTo", b.sx, b.sy - 3) >>
    IN  << Prim("focus", 0, 0), Prim("find_window", 0, 0), Prim("screenshot", 0, 0),
           Prim("press", 0, 0), Prim("hotkey", 0, 0),
           Prim("press", 1, 0), Prim("press", 2, 0), Prim("press", 3, 0),
           Prim("moveTo", shape_x, shape_y), Prim("click", shape_x, shape_y),
           Prim("moveTo", shape_x, shape_y + 40), Prim("click", shape_x, shape_y + 40),
           Prim("canvas", 0, 0),
           Prim("moveTo", (ci.left + ci.right) \div 2, (ci.top + ci.bottom) \div 2) >>
        \o wiggle \o wiggle \o wiggle \o wiggle \o wiggle
        \o << Prim("moveTo", b.sx, b.sy),
              Prim("mouseDown", b.sx, b.sy),
              Prim("moveTo", b.ex, b.sy),
              Prim("moveTo", b.ex, b.ey),
              Prim("mouseUp", b.ex, b.ey),
              Prim("screenshot", 0, 0),
              Prim("verify", 0, 0) >>

\* pyautogui.screenshot(): the raster of the 1920 x 1080 display.
ScreenSize == <<1920, 1080>>

\* Image.getpixel((x, y)): a negative coordinate counts from the far edge;
\* a position still outside the raster raises IndexError.
pixel_at(p) ==
    << IF p[1] < 0 THEN ScreenSize[1] + p[1] ELSE p[1],
       IF p[2] < 0 THEN ScreenSize[2] + p[2] ELSE p[2] >>

OnScreen(p) ==
    LET q == pixel_at(p)
    IN  0 <= q[1] /\ q[1] < ScreenSize[1] /\ 0 <= q[2] /\ q[2] < ScreenSize[2]

\* range(lo, hi, 10) as a sequence.
Range10(lo, hi) ==
    IF hi > lo THEN [k \in 1..((hi - lo + 9) \div 10) |-> lo + 10 * (k - 1)]
    ELSE << >>

\* The positions a comparison looks at, in the order of the code's loops.
\* draw_rectangle: per x the top then the bottom edge, per y the left then
\* the right edge.
draw_rectangle_samples(b) ==
    LET xs == Range10(Min(b.sx, b.ex), Max(b.sx, b.ex))
        ys == Range10(Min(b.sy, b.ey), Max(b.sy, b.ey))
    IN  [i \in 1..(2 * Len(xs)) |->
            IF i % 2 = 1 THEN <<xs[(i + 1) \div 2], Min(b.sy, b.ey)>>
            ELSE <<xs[i \div 2], Max(b.sy, b.ey)>>]
        \o [i \in 1..(2 * Len(ys)) |->
            IF i % 2 = 1 THEN <<Min(b.sx, b.ex), ys[(i + 1) \div 2]>>
            ELSE <<Max(b.sx, b.ex), ys[i \div 2]>>]

\* draw_simple.draw_rectangle_direct: the four borders one after the other,
\* at screen_y1, screen_y2, screen_x1, screen_x2.
draw_rectangle_direct_samples(b) ==
    LET xs == Range10(Min(b.sx, b.ex), Max(b.sx, b.ex))
        ys == Range10(Min(b.sy, b.ey), Max(b.sy, b.ey))
    IN  [i \in 1..Len(xs) |-> <<xs[i], b.sy>>]
        \o [i \in 1..Len(xs) |-> <<xs[i], b.ey>>]
        \o [i \in 1..Len(ys) |-> <<b.sx, ys[i]>>]
        \o [i \in 1..Len(ys) |-> <<b.ex, ys[i]>>]

\* draw_direct_rectangle: the grid of stride 10 over the drawn area.
draw_direct_rectangle_samples(b) ==
    LET xs == Range10(Min(b.sx, b.ex), Max(b.sx, b.ex))
        ys == Range10(Min(b.sy, b.ey), Max(b.sy, b.ey))
    IN  [i \in 1..(Len(xs) * Len(ys)) |->
            <<xs[((i - 1) \div Len(ys)) + 1], ys[((i - 1) % Len(ys)) + 1]>>]

\* draw_circle: per check_x the top then the bottom of the bounding box.
draw_circle_samples(b) ==
    LET xs == Range10(b.sx, b.ex)
    IN  [i \in 1..(2 * Len(xs)) |->
            IF i % 2 = 1 THEN <<xs[(i + 1) \div 2], b.sy>>
            ELSE <<xs[i \div 2], b.ey>>]

\* simple_draw.draw_simple_rectangle: the edge at y1.
draw_simple_rectangle_samples(b) ==
    LET xs == Range10(Min(b.sx, b.ex), Max(b.sx, b.ex))
    IN  [i \in 1..Len(xs) |-> <<xs[i], b.sy>>]

\* (int(radius * 0.9 * cos(a)), int(radius * 0.9 * sin(a))) for a in
\* range(0, 360, 30), as Python's floats give them for radius 100.
circle_offsets(radius) ==
    IF radius = 100
    THEN << <<90, 0>>, <<77, 44>>, <<45, 77>>, <<0, 90>>, <<-44, 77>>,
            <<-77, 44>>, <<-90, 0>>, <<-77, -45>>, <<-45, -77>>, <<0, -90>>,
            <<45, -77>>, <<77, -45>> >>
    ELSE << >>

\* simple_draw.draw_simple_circle: twelve positions around the centre, taken
\* from the arguments (the box is (center - radius, center + radius)).
draw_simple_circle_samples(b) ==
    LET radius == (b.ex - b.sx) \div 2
        offs == circle_offsets(radius)
    IN  [i \in 1..Len(offs) |->
            <<b.sx + radius + offs[i][1], b.sy + radius + offs[i][2]>>]

\* screenshot_before.getpixel(p) != screenshot_after.getpixel(p), where d is
\* the set of raster positions at which the two captures differ.
Differs(p, d) == pixel_at(p) \in d

\* The number of samples counted as changed when every getpixel is inside a
\* try/except that passes over the sample.
count_changed(samples, d) ==
    Cardinality({i \in 1..Len(samples) : OnScreen(samples[i]) /\ Differs(samples[i], d)})

\* What the comparison of each function makes of the difference d:
\* [n |-> samples found changed, val |-> the value returned].
draw_rectangle_verified_from_five(n) == n >= 5

draw_rectangle_verified(n) == n > 5

draw_rectangle_direct_verified(n) == n > 5

draw_direct_rectangle_verified(n) == n > 10

Verdict(n, ok) == [n |-> n, val |-> IF ok THEN "True" ELSE "False"]

draw_rectangle_verify(b, d) ==
    LET n == count_changed(draw_rectangle_samples(b), d)
    IN  Verdict(n, draw_rectangle_verified(n))

draw_rectangle_direct_verify(b, d) ==
    LET n == count_changed(draw_rectangle_direct_samples(b), d)
    IN  Verdict(n, draw_rectangle_direct_verified(n))

\* getpixel is not guarded here: a sample outside the raster ends the call
\* in the except clause.
draw_direct_rectangle_verify(b, d) ==
    LET s == draw_direct_rectangle_samples(b)
        n == count_changed(s, d)
    IN  IF \E i \in 1..Len(s) : ~OnScreen(s[i]) THEN Verdict(n, FALSE)
        ELSE Verdict(n, draw_direct_rectangle_verified(n))

\* draw_circle stops at the first check_x whose top or bottom sample differs;
\* a sample outside the raster met before that raises.
draw_circle_verify(b, d) ==
    LET s == draw_circle_samples(b)
        Hit(j) == /\ OnScreen(s[2 * j - 1])
                  /\ \/ Differs(s[2 * j - 1], d)
                     \/ OnScreen(s[2 * j]) /\ Differs(s[2 * j], d)
        Raises(j) == \/ ~OnScreen(s[2 * j - 1])
                     \/ ~Differs(s[2 * j - 1], d) /\ ~OnScreen(s[2 * j])
        js == 1..(Len(s) \div 2)
        found == \E j \in js : Hit(j) /\ \A k \in 1..(j - 1) : ~Raises(k)
    IN  Verdict(Cardinality({j \in js : Hit(j)}), found)

\* draw_simple_rectangle and draw_simple_circle return True from both
\* branches of "if pixels_changed".
draw_simple_rectangle_verify(b, d) ==
    Verdict(count_changed(draw_simple_rectangle_samples(b), d), TRUE)

draw_simple_circle_verify(b, d) ==
    Verdict(count_changed(draw_simple_circle_samples(b), d), TRUE)

\* simple_draw.get_paint_canvas_bounds().
get_paint_canvas_bounds(w) ==
    [left |-> w.l + 265, top |-> w.t + 30 + 115,
     right |-> w.r - 265, bottom |-> w.b - 30,
     center_x |-> ((w.l + 265) + (w.r - 265)) \div 2,
     center_y |-> ((w.t + 30 + 115) + (w.b - 30)) \div 2]

simple_clamp(v, lo, hi) == Max(lo + 20, Min(v, hi - 20))

simple_clamp_box(b, cb) ==
    Box(simple_clamp(b.sx, cb.left, cb.right), simple_clamp(b.sy, cb.top, cb.bottom),
        simple_clamp(b.ex, cb.left, cb.right), simple_clamp(b.ey, cb.top, cb.bottom))

\* draw_simple_rectangle: (x1, y1, x2, y2) after the conversion and the clamp.
draw_simple_rectangle_box(cl, w) ==
    LET cb == get_paint_canvas_bounds(w)
        b == cl.box
    IN  simple_clamp_box(
            IF b.sx < cb.left \/ b.sy < cb.top
            THEN Box(cb.left + b.sx, cb.top + b.sy, cb.left + b.ex, cb.top + b.ey)
            ELSE b, cb)

\* draw_simple_circle: (x1, y1, x2, y2) of the drag.
draw_simple_circle_box(cl, w) == simple_clamp_box(cl.box, get_paint_canvas_bounds(w))

\* draw_simple.draw_rectangle_direct: canvas at (win_x + 10, win_y + 170).
draw_rectangle_direct_box(cl, w) ==
    Box(w.l + 10 + cl.box.sx, w.t + 170 + cl.box.sy,
        w.l + 10 + cl.box.ex, w.t + 170 + cl.box.ey)

draw_rectangle_box(cl, w) ==
    LET ci == get_paint_canvas_info(w)
    IN  draw_rectangle_clamp(draw_rectangle_screen(cl.box, ci), ci)

draw_direct_rectangle_box(cl, w) ==
    LET ci == get_paint_canvas_info(w)
    IN  draw_rectangle_clamp(draw_direct_rectangle_screen(cl.box, ci), ci)

\* simple_draw.draw_simple_rectangle(x1, y1, x2, y2).
simple_draw_rectangle_program(cl, w) ==
    LET cb == get_paint_canvas_bounds(w)
        b == draw_simple_rectangle_box(cl, w)
    IN  << Prim("focus", 0, 0), Prim("canvas", 0, 0), Prim("screenshot", 0, 0),
           Prim("press", 0, 0), Prim("press", 1, 0), Prim("press", 2, 0),
           Prim("press", 3, 0), Prim("press", 4, 0),
           Prim("select_shape", 0, 0),
           Prim("moveTo", cb.center_x, cb.center_y),
           Prim("moveTo", b.sx, b.sy),
           Prim("moveRel", 5, 0), Prim("moveRel", 0, 5),
           Prim("moveRel", -5, 0), Prim("moveRel", 0, -5),
           Prim("mouseDown", b.sx, b.sy),
           Prim("moveTo", b.ex, b.ey),
           Prim("mouseUp", b.ex, b.ey),
           Prim("moveTo", cb.center_x, cb.center_y),
           Prim("screenshot", 0, 0),
           Prim("verify", 0, 0) >>

\* simple_draw.draw_simple_circle(center_x, center_y, radius).
simple_draw_circle_program(cl, w) ==
    LET cb == get_paint_canvas_bounds(w)
        b == draw_simple_circle_box(cl, w)
    IN  << Prim("focus", 0, 0), Prim("canvas", 0, 0), Prim("screenshot", 0, 0),
           Prim("select_shape", 0, 0),
           Prim("moveTo", cb.center_x, cb.center_y),
           Prim("moveTo", b.sx, b.sy),
           Prim("mouseDown", b.sx, b.sy),
           Prim("moveTo", b.ex, b.ey),
           Prim("mouseUp", b.ex, b.ey),
           Prim("moveTo", cb.center_x, cb.center_y),
           Prim("screenshot", 0, 0),
           Prim("verify", 0, 0) >>

\* draw_simple.draw_rectangle_direct(x1, y1, x2, y2).
draw_rectangle_direct_program(cl, w) ==
    LET b == draw_rectangle_direct_box(cl, w)
        shapes_x == w.l + Trunc((w.r - w.l) * 35, 100)
        shapes_y == w.t + 75
        rest_x == w.l + 10 + 50
        rest_y == w.t + 170 + 50
        wiggle == << Prim("moveTo", b.sx + 5, b.sy), Prim("moveTo", b.sx, b.sy + 5),
                     Prim("moveTo", b.sx - 5, b.sy), Prim("moveTo", b.sx, b.sy - 5) >>
    IN  << Prim("open", 0, 0), Prim("focus_any", 0, 0), Prim("screenshot", 0, 0),
           Prim("press", 0, 0),
           Prim("moveTo", w.l + 50, w.t + 30), Prim("click", w.l + 50, w.t + 30),
           Prim("moveTo", shapes_x, shapes_y), Prim("click", shapes_x, shapes_y),
           Prim("moveTo", shapes_x, shapes_y + 40), Prim("click", shapes_x, shapes_y + 40),
           Prim("moveTo", w.l + ((w.r - w.l) \div 2), w.t + 120),
           Prim("moveTo", rest_x, rest_y) >>
        \o wiggle \o wiggle \o wiggle
        \o << Prim("moveTo", b.sx, b.sy),
              Prim("mouseDown", b.sx, b.sy),
              Prim("moveTo", b.ex, b.sy),
              Prim("moveTo", b.ex, b.ey),
              Prim("mouseUp", b.ex, b.ey),
              Prim("moveTo", rest_x, rest_y),
              Prim("screenshot", 0, 0),
              Prim("verify", 0, 0) >>

\* The scripted test runs of final_paint_tester.py and standalone_test.py.
\* Steps whose result the script tests with "if not ...".
CheckedSteps == {"open_paint", "focus_paint_window", "get_canvas_info", "draw_checked"}

\* Steps whose result the script drops.
UncheckedSteps == {"click_color_palette", "draw_unchecked"}

\* open_paint(), focus_paint_window(), get_canvas_info().
script_head ==
    << Prim("open_paint", 0, 0), Prim("focus_paint_window", 0, 0),
       Prim("get_canvas_info", 0, 0) >>

\* close_paint(); return True.
script_tail == << Prim("close_paint", 0, 0), Return("True") >>

\* A failed step returns False with nothing closed.
close_on_failure_absent == << >>

\* "close_paint(); return False" after a failed focus, canvas or draw step.
close_on_failure == << Prim("close_paint", 0, 0) >>

\* except Exception: try: close_paint() except: pass; return False.
close_on_exception == << Prim("close_paint", 0, 0) >>

\* run_quick_test and run_standalone_test: one rectangle, its result tested.
run_quick_test_program == script_head \o << Prim("draw_checked", 0, 0) >> \o script_tail

run_standalone_test_program == script_head \o << Prim("draw_checked", 0, 0) >> \o script_tail

\* One cell of the 3 x 3 grid: a colour, then the cell's shape (draw_shape
\* or three draw_line calls).
grid_cell(n) == << Prim("click_color_palette", n, 0), Prim("draw_unchecked", n, 0) >>

draw_shape_grid_program ==
    script_head
    \o grid_cell(1) \o grid_cell(2) \o grid_cell(3)
    \o grid_cell(4) \o grid_cell(5) \o grid_cell(6)
    \o grid_cell(7) \o grid_cell(8) \o grid_cell(9)
    \o script_tail

\* draw_complex_scene: sky, ground, sun, three mountains of two lines each,
\* house, roof of two lines.
draw_complex_scene_program ==
    LET colour(n) == Prim("click_color_palette", n, 0)
        draw(n) == Prim("draw_unchecked", n, 0)
    IN  script_head
        \o << colour(1), draw(1), colour(2), draw(2), colour(3), draw(3),
              colour(4), draw(4), draw(5), draw(6), draw(7), draw(8), draw(9),
              colour(5), draw(10), colour(6), draw(11), draw(12) >>
        \o script_tail

Scripts == {"run_quick_test", "draw_shape_grid", "draw_complex_scene", "run_standalone_test"}

\* paint_commands.select_color: the palette entries, (percent of the
\* window width from its left edge, pixels from its top).
color_positions ==
    [l \in {"black", "white", "red", "blue", "green"} |->
        CASE l = "black" -> <<60, 75>>
          [] l = "white" -> <<63, 75>>
          [] l = "red" -> <<66, 75>>
          [] l = "blue" -> <<69, 75>>
          [] l = "green" -> <<72, 75>>]

\* if color_name not in color_positions: color_name = 'black'.
color_looked_up(color_name) ==
    IF color_name \in DOMAIN color_positions THEN color_name ELSE "black"

\* (color_x, color_y) of a palette entry in the window w.
color_xy(l, w) ==
    << w.l + Trunc((w.r - w.l) * color_positions[l][1], 100), w.t + color_positions[l][2] >>

\* paint_commands.select_shape_tool: the cells of the shapes grid.
shape_positions ==
    [l \in {"line", "curve", "rectangle", "square", "oval", "circle", "triangle"} |->
        CASE l = "line" -> <<0, 0>>
          [] l = "curve" -> <<1, 0>>
          [] l = "rectangle" -> <<0, 1>>
          [] l = "square" -> <<1, 1>>
          [] l = "oval" -> <<2, 1>>
          [] l = "circle" -> <<3, 1>>
          [] l = "triangle" -> <<0, 2>>]

\* if shape_type.lower() not in shape_positions: shape_type = 'rectangle'.
shape_looked_up(shape_type) ==
    IF Lower(shape_type) \in DOMAIN shape_positions THEN Lower(shape_type) ELSE "rectangle"

\* The Shapes button of the toolbar.
shapes_button(w) == << w.l + Trunc((w.r - w.l) * 35, 100), w.t + 55 >>

\* (shape_x, shape_y) of a cell of the grid in the window w.
shape_xy(l, w) ==
    << shapes_button(w)[1] + shape_positions[l][1] * 40,
       shapes_button(w)[2] + 40 + shape_positions[l][2] * 35 >>

\* One pass of select_color's "for attempt in range(3)".
select_color_attempt(p) ==
    << Prim("press", 0, 0),
       Prim("moveTo", p[1], p[2]), Prim("click", p[1], p[2]),
       Prim("moveTo", p[1] + 5, p[2]), Prim("moveTo", p[1], p[2]),
       Return("True") >>

\* paint_commands.select_color(color_name); the call's shape field holds
\* color_name.
paint_select_color_program(cl, w) ==
    LET p == color_xy(color_looked_up(cl.shape), w)
    IN  << Prim("focus", 0, 0), Prim("find_window", 0, 0) >>
        \o select_color_attempt(p) \o select_color_attempt(p) \o select_color_attempt(p)
        \o << Return("False") >>

\* paint_commands.select_shape_tool(shape_type).
paint_select_shape_tool_program(cl, w) ==
    LET sb == shapes_button(w)
        p == shape_xy(shape_looked_up(cl.shape), w)
    IN  << Prim("find_window", 0, 0), Prim("focus", 0, 0),
           Prim("press", 0, 0),
           Prim("moveTo", sb[1], sb[2]), Prim("click", sb[1], sb[2]),
           Prim("moveTo", p[1], p[2]), Prim("click", p[1], p[2]),
           Prim("moveTo", w.l + ((w.r - w.l) \div 2), w.t + 160),
           Return("True") >>

\* range(lo, hi, 20) as a sequence.
Range20(lo, hi) ==
    IF hi > lo THEN [k \in 1..((hi - lo + 19) \div 20) |-> lo + 20 * (k - 1)]
    ELSE << >>

\* simpler_draw.draw_rectangle_direct and draw_win32.draw_rectangle: the
\* grid of stride 20 over the drawn area, each getpixel inside a try/except
\* that passes over the sample.
stride20_samples(b) ==
    LET xs == Range20(Min(b.sx, b.ex), Max(b.sx, b.ex))
        ys == Range20(Min(b.sy, b.ey), Max(b.sy, b.ey))
    IN  [i \in 1..(Len(xs) * Len(ys)) |->
            <<xs[((i - 1) \div Len(ys)) + 1], ys[((i - 1) % Len(ys)) + 1]>>]

stride20_verify(b, d) ==
    LET n == count_changed(stride20_samples(b), d)
    IN  Verdict(n, n > 5)

\* simpler_draw.draw_rectangle_direct: canvas at (win_x + 10, win_y + 170).
simpler_draw_rectangle_direct_box(cl, w) ==
    Box(w.l + 10 + cl.box.sx, w.t + 170 + cl.box.sy,
        w.l + 10 + cl.box.ex, w.t + 170 + cl.box.ey)

\* draw_win32.draw_rectangle: canvas at (win_x + 5, win_y + 170).
win32_draw_rectangle_box(cl, w) ==
    Box(w.l + 5 + cl.box.sx, w.t + 170 + cl.box.sy,
        w.l + 5 + cl.box.ex, w.t + 170 + cl.box.ey)

\* "Do it twice for reliability": mouseDown() twice, and mouseUp() twice.
press_twice(b) == << Prim("mouseDown", b.sx, b.sy), Prim("mouseDown", b.sx, b.sy) >>

release_twice(b) == << Prim("mouseUp", b.ex, b.ey), Prim("mouseUp", b.ex, b.ey) >>

\* final_paint_tester.draw_shape(start_x, start_y, end_x, end_y).
tester_draw_shape_program(cl) ==
    LET b == cl.box
    IN  << Prim("moveTo", b.sx, b.sy),
           Prim("mouseDown", b.sx, b.sy),
           Prim("moveTo", b.ex, b.ey),
           Prim("mouseUp", b.ex, b.ey),
           Return("True") >>

\* simpler_draw.draw_rectangle_direct(x1, y1, x2, y2).
simpler_draw_rectangle_direct_program(cl, w) ==
    LET b == simpler_draw_rectangle_direct_box(cl, w)
        shapes_x == w.l + Trunc((w.r - w.l) * 35, 100)
        shapes_y == w.t + 75
        wiggle == << Prim("moveTo", b.sx + 5, b.sy), Prim("moveTo", b.sx, b.sy + 5),
                     Prim("moveTo", b.sx - 5, b.sy), Prim("moveTo", b.sx, b.sy - 5) >>
    IN  << Prim("open", 0, 0), Prim("focus_any", 0, 0), Prim("screenshot", 0, 0),
           Prim("press", 0, 0),
           Prim("moveTo", shapes_x, shapes_y), Prim("click", shapes_x, shapes_y),
           Prim("moveTo", shapes_x, shapes_y + 40), Prim("click", shapes_x, shapes_y + 40),
           Prim("moveTo", w.l + 100, w.t + 100) >>
        \o wiggle \o wiggle
        \o << Prim("moveTo", b.sx, b.sy) >>
        \o press_twice(b)
        \o << Prim("moveTo", b.ex, b.sy),
              Prim("moveTo", b.ex, b.ey) >>
        \o release_twice(b)
        \o << Prim("moveTo", w.l + 50, w.t + 50),
              Prim("screenshot", 0, 0),
              Prim("verify", 0, 0) >>

\* draw_win32.draw_rectangle(x1, y1, x2, y2): SendKeys for the tool,
\* SetCursorPos and mouse_event for the drag.
win32_draw_rectangle_program(cl, w) ==
    LET b == win32_draw_rectangle_box(cl, w)
    IN  << Prim("open", 0, 0), Prim("focus_any", 0, 0), Prim("screenshot", 0, 0),
           Prim("press", 0, 0), Prim("press", 1, 0), Prim("press", 2, 0),
           Prim("press", 3, 0), Prim("press", 4, 0),
           Prim("moveTo", b.sx, b.sy),
           Prim("mouseDown", b.sx, b.sy),
           Prim("moveTo", b.ex, b.ey),
           Prim("mouseUp", b.ex, b.ey),
           Prim("moveTo", w.l + 50, w.t + 50),
           Prim("screenshot", 0, 0),
           Prim("verify", 0, 0) >>

\* The comparison at the end of the call cl, on the difference d.
verify_of(cl, w, d) ==
    CASE cl.fn = "draw_rectangle" -> draw_rectangle_verify(draw_rectangle_box(cl, w), d)
      [] cl.fn = "draw_rectangle_direct" ->
            draw_rectangle_direct_verify(draw_rectangle_direct_box(cl, w), d)
      [] cl.fn = "draw_direct_rectangle" ->
            draw_direct_rectangle_verify(draw_direct_rectangle_box(cl, w), d)
      [] cl.fn = "draw_circle" -> draw_circle_verify(cl.box, d)
      [] cl.fn = "draw_simple_rectangle" ->
            draw_simple_rectangle_verify(draw_simple_rectangle_box(cl, w), d)
      [] cl.fn = "draw_simple_circle" -> draw_simple_circle_verify(cl.box, d)
      [] cl.fn = "simpler_draw_rectangle_direct" ->
            stride20_verify(simpler_draw_rectangle_direct_box(cl, w), d)
      [] cl.fn = "win32_draw_rectangle" ->
            stride20_verify(win32_draw_rectangle_box(cl, w), d)
      [] OTHER -> Verdict(0, FALSE)

\* The samples of that comparison.
samples_of(cl, w) ==
    CASE cl.fn = "draw_rectangle" -> draw_rectangle_samples(draw_rectangle_box(cl, w))
      [] cl.fn = "draw_rectangle_direct" ->
            draw_rectangle_direct_samples(draw_rectangle_direct_box(cl, w))
      [] cl.fn = "draw_direct_rectangle" ->
            draw_direct_rectangle_samples(draw_direct_rectangle_box(cl, w))
      [] cl.fn = "draw_circle" -> draw_circle_samples(cl.box)
      [] cl.fn = "draw_simple_rectangle" ->
            draw_simple_rectangle_samples(draw_simple_rectangle_box(cl, w))
      [] cl.fn = "draw_simple_circle" -> draw_simple_circle_samples(cl.box)
      [] cl.fn = "simpler_draw_rectangle_direct" ->
            stride20_samples(simpler_draw_rectangle_direct_box(cl, w))
      [] cl.fn = "win32_draw_rectangle" ->
            stride20_samples(win32_draw_rectangle_box(cl, w))
      [] OTHER -> << >>

\* The steps of the call in progress.
Program ==
    CASE call.fn \in {"execute_tool.draw_shape", "execute_tool.select_color",
                      "execute_tool.add_text_in_paint", "execute_tool.save_image"} ->
            execute_tool_program(call,
                Canvas(CANVAS_X, CANVAS_Y, CANVAS_WIDTH, CANVAS_HEIGHT),
                CALIBRATED_POSITIONS)
      [] call.fn = "draw_shape" -> paint_draw_shape_program(call, window)
      [] call.fn = "draw_rectangle" -> paint_draw_rectangle_program(call, window)
      [] call.fn = "draw_circle" -> paint_draw_circle_program(call, window)
      [] call.fn = "draw_text" -> paint_draw_text_program(call, window)
      [] call.fn = "draw_direct_rectangle" ->
            paint_draw_direct_rectangle_program(call, window)
      [] call.fn = "draw_rectangle_direct" -> draw_rectangle_direct_program(call, window)
      [] call.fn = "draw_simple_rectangle" -> simple_draw_rectangle_program(call, window)
      [] call.fn = "draw_simple_circle" -> simple_draw_circle_program(call, window)
      [] call.fn = "run_quick_test" -> run_quick_test_program
      [] call.fn = "draw_shape_grid" -> draw_shape_grid_program
      [] call.fn = "draw_complex_scene" -> draw_complex_scene_program
      [] call.fn = "run_standalone_test" -> run_standalone_test_program
      [] call.fn = "select_color" -> paint_select_color_program(call, window)
      [] call.fn = "select_shape_tool" -> paint_select_shape_tool_program(call, window)
      [] call.fn = "tester_draw_shape" -> tester_draw_shape_program(call)
      [] call.fn = "simpler_draw_rectangle_direct" ->
            simpler_draw_rectangle_direct_program(call, window)
      [] call.fn = "win32_draw_rectangle" -> win32_draw_rectangle_program(call, window)
      [] OTHER -> << >>

\* What the function's except clause does: nothing but return False
\* (execute_tool, draw_circle, draw_direct_rectangle), pyautogui.mouseUp()
\* (draw_shape), or mouseUp() inside its own try/except (draw_rectangle).
handler_of(f) ==
    CASE f = "draw_shape" -> "release"
      [] f = "draw_rectangle" -> "guarded_release"
      [] OTHER -> "none"

---------------------------------------------------------------------------
(* enhanced_calibrate.py, talk2mcp.load_paint_positions and                *)
(* GeminiPaintTest.load_calibration: the calibration store                 *)

\* How far outside the screen a captured pointer position may lie.
CoordOver == 1

\* pyautogui.size() of the machines calibrated on: <<width, height>>.
Screens == {<<1920, 1080>>, <<1366, 768>>}

\* What the user types for a label, and input().lower().strip() of it.
RawNames == {"red", " Red ", "BLUE"}

\* The label kept as typed.
lower_strip_absent(raw) == raw

lower_strip(raw) ==
    CASE raw = " Red " -> "red"
      [] raw = "BLUE" -> "blue"
      [] OTHER -> raw

\* The order the labels are written in (a dict compares without order).
LabelOrder == <<"red", "blue">>

\* A Python tuple (x, y) or list [x, y].
Point(x, y, seq) == [x |-> x, y |-> y, seq |-> seq]

EmptyProfile == [l \in {} |-> Point(0, 0, "tuple")]

Put(f, k, v) == [l \in DOMAIN f \cup {k} |-> IF l = k THEN v ELSE f[l]]

\* Same labels and same (x, y); a list [x, y] counts as the point (x, y).
SamePoints(m1, m2) ==
    /\ DOMAIN m1 = DOMAIN m2
    /\ \A l \in DOMAIN m1 : m1[l].x = m2[l].x /\ m1[l].y = m2[l].y

validate_position_strict(x, y, size) ==
    0 <= x /\ x < size[1] /\ 0 <= y /\ y < size[2]

validate_position(x, y, size) ==
    0 <= x /\ x <= size[1] /\ 0 <= y /\ y <= size[2]

\* Files are sequences of text lines; a line is kept by its shape:
\*   "{}"  "{"  "}"            the braces json.dump writes
\*   "key"     "<name>": [     opens an entry of the JSON object
\*   "num"     <num>  or  <num>,
\*   "endlist" ]  or  ],
\*   "pair"    <name>: (<num>, <y>)   a line of paint_positions.txt
\*   "text"    a line without a colon
\*   "bad"     a line with a colon whose right side is not an expression
Line(kind, name, num, y, comma) ==
    [kind |-> kind, name |-> name, num |-> num, y |-> y, comma |-> comma]

Brace(kind) == Line(kind, "", 0, 0, FALSE)

NoFile == [exists |-> FALSE, lines |-> << >>]

File(lines) == [exists |-> TRUE, lines |-> lines]

PositionsTxt == "../pjt2 paint test/paint_positions.txt"

ProfileJson(profile_name) ==
    IF profile_name = "default" THEN "calibration_profiles/default.json"
    ELSE "calibration_profiles/work.json"

Paths == {PositionsTxt, ProfileJson("default"), ProfileJson("work")}

\* The labels of a profile in writing order.
RECURSIVE labels_from(_, _)
labels_from(pos, i) ==
    IF i > Len(LabelOrder) THEN << >>
    ELSE (IF LabelOrder[i] \in DOMAIN pos THEN <<LabelOrder[i]>> ELSE << >>)
             \o labels_from(pos, i + 1)

\* json.dump(self.positions, f, indent=4): a tuple is written as a list,
\* one element per line.
RECURSIVE json_entries(_, _, _)
json_entries(pos, names, i) ==
    IF i > Len(names) THEN << >>
    ELSE << Line("key", names[i], 0, 0, FALSE),
            Line("num", "", pos[names[i]].x, 0, TRUE),
            Line("num", "", pos[names[i]].y, 0, FALSE),
            Line("endlist", "", 0, 0, i < Len(names)) >>
             \o json_entries(pos, names, i + 1)

json_dump(pos) ==
    IF DOMAIN pos = {} THEN << Brace("{}") >>
    ELSE << Brace("{") >> \o json_entries(pos, labels_from(pos, 1), 1)
             \o << Brace("}") >>

\* json.load: the object of the text, or a JSONDecodeError.
RECURSIVE json_members(_, _, _)
json_members(lines, i, acc) ==
    IF i = Len(lines)
    THEN [ok |-> lines[i].kind = "}", positions |-> acc]
    ELSE IF /\ i + 4 <= Len(lines)
            /\ lines[i].kind = "key"
            /\ lines[i + 1].kind = "num" /\ lines[i + 1].comma
            /\ lines[i + 2].kind = "num" /\ ~lines[i + 2].comma
            /\ lines[i + 3].kind = "endlist"
            /\ lines[i + 3].comma = (lines[i + 4].kind = "key")
         THEN json_members(lines, i + 4,
                  Put(acc, lines[i].name,
                      Point(lines[i + 1].num, lines[i + 2].num, "list")))
         ELSE [ok |-> FALSE, positions |-> EmptyProfile]

json_load(lines) ==
    IF lines = << Brace("{}") >> THEN [ok |-> TRUE, positions |-> EmptyProfile]
    ELSE IF Len(lines) >= 2 /\ lines[1].kind = "{"
         THEN LET r == json_members(lines, 2, EmptyProfile)
              IN  IF r.ok THEN r ELSE [ok |-> FALSE, positions |-> EmptyProfile]
         ELSE [ok |-> FALSE, positions |-> EmptyProfile]

\* The loop of load_paint_positions: a line with a colon is split at the
\* colon and its right side handed to eval; any exception ends the load
\* with None, a line without a colon is passed over.
has_colon(ln) == ln.kind \in {"key", "pair", "bad"}

RECURSIVE parse_positions(_, _, _)
parse_positions(lines, i, acc) ==
    IF i > Len(lines) THEN [ok |-> TRUE, positions |-> acc]
    ELSE IF ~has_colon(lines[i]) THEN parse_positions(lines, i + 1, acc)
    ELSE IF lines[i].kind = "pair"
         THEN parse_positions(lines, i + 1,
                  Put(acc, lines[i].name,
                      Point(lines[i].num, lines[i].y, "tuple")))
         ELSE [ok |-> FALSE, positions |-> EmptyProfile]

load_paint_positions(fs) ==
    IF ~fs[PositionsTxt].exists THEN [ok |-> FALSE, positions |-> EmptyProfile]
    ELSE parse_positions(fs[PositionsTxt].lines, 1, EmptyProfile)

load_calibration(fs) ==
    IF ~fs[ProfileJson("default")].exists
    THEN [ok |-> FALSE, positions |-> EmptyProfile]
    ELSE json_load(fs[ProfileJson("default")].lines)

\* paint_positions.txt as written by hand.
HandWritten ==
    { << Line("pair", "rectangle", 400, 80, FALSE),
         Line("pair", "oval", 440, 80, FALSE) >>,
      << Line("text", "", 0, 0, FALSE),
         Line("pair", "red", 900, 60, FALSE) >>,
      << Line("pair", "red", 900, 60, FALSE),
         Line("bad", "blue", 0, 0, FALSE) >>,
      << Line("text", "", 0, 0, FALSE) >> }

\* main(): "if not CALIBRATED_POSITIONS" refuses None and the empty dict.
main_refuses(r) == ~r.ok \/ DOMAIN r.positions = {}

NoSample == [taken |-> FALSE, x |-> 0, y |-> 0, name |-> "", valid |-> FALSE]

NoSave == [done |-> FALSE, name |-> "", positions |-> EmptyProfile]

NoLoad == [by |-> "none", ok |-> FALSE, positions |-> EmptyProfile]

CaptureXs == {0 - CoordOver, 0, 100, screen[1], screen[1] + CoordOver}

CaptureYs == {0 - CoordOver, 0, 200, screen[2], screen[2] + CoordOver}

CalibIdle ==
    /\ screen = <<1920, 1080>>
    /\ positions = EmptyProfile
    /\ sample = NoSample
    /\ files = [p \in Paths |-> NoFile]
    /\ saved = NoSave
    /\ loaded = NoLoad

CalibInit ==
    /\ screen \in Screens
    /\ positions = EmptyProfile
    /\ sample = NoSample
    /\ files = [p \in Paths |-> NoFile]
    /\ saved = NoSave
    /\ loaded = NoLoad

\* One pass of the loop of get_mouse_position with SPACE pressed.
Capture ==
    /\ ~saved.done
    /\ \E x \in CaptureXs, y \in CaptureYs, raw \in RawNames :
          LET name == lower_strip(raw)
              valid == validate_position(x, y, screen)
          IN  /\ sample' = [taken |-> TRUE, x |-> x, y |-> y,
                            name |-> name, valid |-> valid]
              /\ positions' = IF valid
                              THEN Put(positions, name, Point(x, y, "tuple"))
                              ELSE positions
    /\ UNCHANGED <<screen, files, saved, loaded>>
    /\ OutsideCalib

\* main() after 'q': the profile name typed ("" stands for Enter), then
\* save_profile.
SaveProfile ==
    /\ ~saved.done
    /\ \E typed \in {"", "work"} :
          LET profile_name == IF typed = "" THEN "default" ELSE typed
          IN  /\ files' = [files EXCEPT ![ProfileJson(profile_name)] =
                                            File(json_dump(positions))]
              /\ saved' = [done |-> TRUE, name |-> profile_name,
                           positions |-> positions]
    /\ sample' = NoSample
    /\ UNCHANGED <<screen, positions, loaded>>
    /\ OutsideCalib

\* The user writes paint_positions.txt by hand.
WritePositionsTxt ==
    /\ saved.done
    /\ \E lines \in HandWritten : files' = [files EXCEPT ![PositionsTxt] = File(lines)]
    /\ UNCHANGED <<screen, positions, sample, saved, loaded>>
    /\ OutsideCalib

\* The user copies the saved profile to the path the session reads.
InstallProfile ==
    /\ saved.done
    /\ files' = [files EXCEPT ![PositionsTxt] = files[ProfileJson(saved.name)]]
    /\ UNCHANGED <<screen, positions, sample, saved, loaded>>
    /\ OutsideCalib

\* talk2mcp at import: CALIBRATED_POSITIONS = load_paint_positions().
LoadPaintPositions ==
    /\ saved.done
    /\ LET r == load_paint_positions(files)
       IN  loaded' = [by |-> "load_paint_positions", ok |-> r.ok,
                      positions |-> r.positions]
    /\ UNCHANGED <<screen, positions, sample, files, saved>>
    /\ OutsideCalib

\* GeminiPaintTest.load_calibration().
LoadCalibration ==
    /\ saved.done
    /\ LET r == load_calibration(files)
       IN  loaded' = [by |-> "load_calibration", ok |-> r.ok,
                      positions |-> r.positions]
    /\ UNCHANGED <<screen, positions, sample, files, saved>>
    /\ OutsideCalib

---------------------------------------------------------------------------
(* The session state and the step-by-step run of a call *)

\* The longest run of changed positions a difference holds.
MaxChanged == 12

\* Differences between the two captures: n positions in a row of those the
\* comparison samples, from the first or from the second one, or the same
\* positions moved 5 pixels to the right (off the stride of 10).
Diffs(samples) ==
    { { pixel_at(<<samples[i][1] + off, samples[i][2]>>) :
            i \in (from + 1)..Min(from + n, Len(samples)) } :
        from \in {0, 1}, n \in 0..MaxChanged, off \in {0, 5} }

ExecBoxes == {Box(300, 200, 700, 600), Box(300, 200, 700, 200), Box(0, 0, 1000, 1000)}

ExecShapes == {"rectangle", "circle", "star"}

ExecColors == {"red", "Blue", "mauve", "pink"}

\* (x, y) of the text commands; (400, 100) are the defaults.
ExecTextPoints == {<<400, 100>>, <<0, 1000>>}

PaintBoxes ==
    {Box(100, 100, 300, 250), Box(200, 200, 400, 400), Box(500, 400, 800, 600),
     Box(1200, 300, 1600, 500)}

\* (x - radius, y - radius, x + radius, y + radius) of the circles drawn.
PaintCircles == {Box(600, 400, 800, 600), Box(-50, 50, 150, 250)}

\* (x, y) of the texts drawn.
PaintTextPoints == {<<400, 300>>, <<-20, 300>>, <<1500, 300>>, <<400, 950>>}

RunInit(profiles, windows) ==
    /\ window \in windows
    /\ CANVAS_X = 0 /\ CANVAS_Y = 0 /\ CANVAS_WIDTH = 0 /\ CANVAS_HEIGHT = 0
    /\ WINDOW_FOUND = FALSE
    /\ CALIBRATED_POSITIONS \in profiles
    /\ call = NoCall
    /\ pc = 0
    /\ status = "idle"
    /\ events = << >>
    /\ buttonDown = FALSE
    /\ shiftDown = FALSE
    /\ result = "none"

GeomIdle == fn = "none" /\ arg = << >> /\ out = << >>

FocusIdle ==
    /\ focus_fn = "none"
    /\ fpc = "done"
    /\ attempt = 0
    /\ round = 0
    /\ paint_running = FALSE
    /\ foreground = FALSE
    /\ waits = << >>
    /\ focus_result = "none"

BatchIdle ==
    /\ batch = << >>
    /\ line = 1
    /\ executed_commands = 0
    /\ successful_commands = 0
    /\ outcomes = << >>
    /\ batch_result = "none"

NotRunning == status \in {"idle", "returned", "raised"}

Running == status = "running" /\ pc \in 1..Len(Program)

\* The user or the window manager moves, resizes, minimizes or closes the
\* Paint window between two calls.
WindowChange ==
    /\ NotRunning
    /\ \E w \in SessionWindows \cup {NoWindow} : w # window /\ window' = w
    /\ UNCHANGED <<canvasVars, CALIBRATED_POSITIONS, call, pc, status, events,
                   buttonDown, shiftDown, result>>
    /\ OutsideRun

\* update_canvas_dimensions() when EnumWindows meets the Paint window w.
SetCanvas(w) ==
    LET c == update_canvas_dimensions(w)
    IN  /\ CANVAS_X' = c.x
        /\ CANVAS_Y' = c.y
        /\ CANVAS_WIDTH' = c.w
        /\ CANVAS_HEIGHT' = c.h
        /\ WINDOW_FOUND' = TRUE

\* A call that ran in one piece and returned v.
Finished(f, v) ==
    /\ call' = Call(f, "", Box(0, 0, 0, 0))
    /\ pc' = 0
    /\ status' = "returned"
    /\ events' = << >>
    /\ result' = v

\* A call that starts running its steps.
Started(f, shape, b) ==
    /\ call' = Call(f, shape, b)
    /\ pc' = 1
    /\ status' = "running"
    /\ events' = << >>
    /\ result' = "none"

\* execute_tool('open_paint'): open_paint() finds or launches Paint, then the
\* canvas globals are updated.
ExecOpenPaintCall ==
    /\ NotRunning
    /\ \E launched \in BOOLEAN, w \in SessionWindows :
          IF window # NoWindow \/ launched
          THEN /\ window' = IF window # NoWindow THEN Maximized ELSE w
               /\ SetCanvas(window')
               /\ Finished("execute_tool.open_paint", "True")
          ELSE /\ UNCHANGED <<window, canvasVars>>
               /\ Finished("execute_tool.open_paint", "False")
    /\ UNCHANGED <<CALIBRATED_POSITIONS, buttonDown, shiftDown>>

ExecOpenPaint == ExecOpenPaintCall /\ OutsideRun

\* execute_tool('ensure_paint_focused'): on success the window is maximized
\* and the canvas globals are updated.
ExecEnsureFocusedCall ==
    /\ NotRunning
    /\ \E focused \in BOOLEAN :
          IF window # NoWindow /\ focused
          THEN /\ window' = Maximized
               /\ SetCanvas(window')
               /\ Finished("execute_tool.ensure_paint_focused", "True")
          ELSE /\ UNCHANGED <<window, canvasVars>>
               /\ Finished("execute_tool.ensure_paint_focused", "False")
    /\ UNCHANGED <<CALIBRATED_POSITIONS, buttonDown, shiftDown>>

ExecEnsureFocused == ExecEnsureFocusedCall /\ OutsideRun

\* execute_tool('draw_shape') with WINDOW_FOUND unset and no Paint window:
\* update_canvas_dimensions() fails and the call returns False.
ExecDrawShapeNoWindowCall ==
    /\ NotRunning
    /\ ~WINDOW_FOUND
    /\ window = NoWindow
    /\ \E shape \in ExecShapes, b \in ExecBoxes :
          /\ Finished("execute_tool.draw_shape", "False")
    /\ UNCHANGED <<window, canvasVars, CALIBRATED_POSITIONS, buttonDown, shiftDown>>

ExecDrawShapeNoWindow == ExecDrawShapeNoWindowCall /\ OutsideRun

\* execute_tool('draw_shape'): the canvas globals are refreshed only when
\* WINDOW_FOUND is unset; then the input sequence starts.
ExecDrawShapeStartCall ==
    /\ NotRunning
    /\ WINDOW_FOUND \/ window # NoWindow
    /\ \E shape \in ExecShapes, b \in ExecBoxes : Started("execute_tool.draw_shape", shape, b)
    /\ IF WINDOW_FOUND THEN UNCHANGED canvasVars ELSE SetCanvas(window)
    /\ UNCHANGED <<window, CALIBRATED_POSITIONS, buttonDown, shiftDown>>

ExecDrawShapeStart == ExecDrawShapeStartCall /\ OutsideRun

\* execute_tool('select_color', {'color_name': ...}).
ExecSelectColorStartCall ==
    /\ NotRunning
    /\ \E color_name \in ExecColors :
          Started("execute_tool.select_color", color_name, Box(0, 0, 0, 0))
    /\ UNCHANGED <<window, canvasVars, CALIBRATED_POSITIONS, buttonDown, shiftDown>>

ExecSelectColorStart == ExecSelectColorStartCall /\ OutsideRun

\* execute_tool('add_text_in_paint', {'x': ..., 'y': ..., 'text': ...}): the
\* canvas globals are used as they are.
ExecAddTextStartCall ==
    /\ NotRunning
    /\ \E p \in ExecTextPoints :
          Started("execute_tool.add_text_in_paint", "text", Box(p[1], p[2], p[1], p[2]))
    /\ UNCHANGED <<window, canvasVars, CALIBRATED_POSITIONS, buttonDown, shiftDown>>

ExecAddTextStart == ExecAddTextStartCall /\ OutsideRun

\* execute_tool('select_color', {}): params['color_name'] is read first.
ExecSelectColorNoParam ==
    /\ NotRunning
    /\ Started("execute_tool.select_color", MissingParam, Box(0, 0, 0, 0))
    /\ UNCHANGED <<window, canvasVars, CALIBRATED_POSITIONS, buttonDown, shiftDown>>
    /\ OutsideRun

\* execute_tool('save_image', params): save_image(params['path']) focuses
\* the window, saves, and reports whether the file is there.
ExecSaveImage ==
    /\ NotRunning
    /\ \E has_path \in BOOLEAN, focused \in BOOLEAN, written \in BOOLEAN :
          /\ focused => window # NoWindow
          /\ written => focused
          /\ IF has_path
             THEN /\ Finished("execute_tool.save_image",
                              IF written THEN "True" ELSE "False")
                  /\ window' = IF focused THEN Maximized ELSE window
             ELSE /\ ~focused
                  /\ Started("execute_tool.save_image", MissingParam, Box(0, 0, 0, 0))
                  /\ UNCHANGED window
    /\ UNCHANGED <<canvasVars, CALIBRATED_POSITIONS, buttonDown, shiftDown>>
    /\ OutsideRun

\* execute_tool('close_paint', {}): close_paint() returns True when no Paint
\* window is found afterwards.
ExecClosePaint ==
    /\ NotRunning
    /\ \E closed \in BOOLEAN :
          /\ window = NoWindow => closed
          /\ window' = IF closed THEN NoWindow ELSE window
          /\ Finished("execute_tool.close_paint", IF closed THEN "True" ELSE "False")
    /\ UNCHANGED <<canvasVars, CALIBRATED_POSITIONS, buttonDown, shiftDown>>
    /\ OutsideRun

\* A tool name execute_tool has no branch for.
UnknownTools == {"make_coffee", "draw_rectangle"}

ExecUnknownTool ==
    /\ NotRunning
    /\ \E tool_name \in UnknownTools : Finished(tool_name, execute_tool_else)
    /\ UNCHANGED <<window, canvasVars, CALIBRATED_POSITIONS, buttonDown, shiftDown>>
    /\ OutsideRun

\* One pyautogui call of the sequence goes through.
RunStep ==
    /\ Running
    /\ Program[pc].op \in PointerOps
    /\ events' = Append(events, Program[pc])
    /\ buttonDown' = CASE Program[pc].op = "mouseDown" -> TRUE
                       [] Program[pc].op = "mouseUp" -> FALSE
                       [] OTHER -> buttonDown
    /\ shiftDown' = CASE Program[pc].op = "keyDown" -> TRUE
                      [] Program[pc].op = "keyUp" -> FALSE
                      [] OTHER -> shiftDown
    /\ pc' = pc + 1
    /\ UNCHANGED <<window, canvasVars, CALIBRATED_POSITIONS, call, status, result>>
    /\ OutsideRun

\* The function reaches a return statement.
RunReturn ==
    /\ Running
    /\ Program[pc].op = "return"
    /\ result' = Program[pc].val
    /\ status' = "returned"
    /\ UNCHANGED <<window, canvasVars, CALIBRATED_POSITIONS, call, pc, events,
                   buttonDown, shiftDown>>
    /\ OutsideRun

\* The pyautogui call (or the pixel comparison) raises: control passes to the
\* function's except clause.
RunRaise ==
    /\ Running
    /\ Program[pc].op \in PointerOps \cup {"verify"} \cup FailingOps
    /\ events' = Append(events, Prim("raise", 0, 0))
    /\ IF handler_of(call.fn) = "none"
       THEN status' = "returned" /\ result' = "False"
       ELSE status' = "handler" /\ result' = "none"
    /\ UNCHANGED <<window, canvasVars, CALIBRATED_POSITIONS, call, pc,
                   buttonDown, shiftDown>>
    /\ OutsideRun

\* The except clause calls pyautogui.mouseUp(), which releases the button or
\* raises in its turn: draw_rectangle swallows that, draw_shape lets it
\* propagate.
RunHandlerRelease ==
    /\ status = "handler"
    /\ \E released \in BOOLEAN :
          IF released
          THEN /\ events' = Append(events, Prim("mouseUp", 0, 0))
               /\ buttonDown' = FALSE
               /\ status' = "returned"
               /\ result' = "False"
          ELSE /\ UNCHANGED <<events, buttonDown>>
               /\ IF handler_of(call.fn) = "guarded_release"
                  THEN status' = "returned" /\ result' = "False"
                  ELSE status' = "raised" /\ result' = "none"
    /\ UNCHANGED <<window, canvasVars, CALIBRATED_POSITIONS, call, pc, shiftDown>>
    /\ OutsideRun

\* ensure_paint_focused(), find_paint_window(), get_paint_canvas_info() or
\* select_shape_tool(): each needs the window and reports failure without
\* raising; a successful focus leaves the window maximized.
RunExternal ==
    /\ Running
    /\ Program[pc].op \in ExternalOps
    /\ \E ok \in BOOLEAN :
          /\ ok => window # NoWindow
          /\ IF ok
             THEN /\ events' = Append(events, Program[pc])
                  /\ window' = IF Program[pc].op = "focus" THEN Maximized ELSE window
                  /\ pc' = pc + 1
                  /\ UNCHANGED <<status, result>>
             ELSE /\ status' = "returned"
                  /\ result' = "False"
                  /\ UNCHANGED <<events, window, pc>>
    /\ UNCHANGED <<canvasVars, CALIBRATED_POSITIONS, call, buttonDown, shiftDown>>
    /\ OutsideRun

\* The before/after comparison: the captures differ at d, the function
\* counts the changed samples and returns its verdict.
RunVerify ==
    /\ Running
    /\ Program[pc].op = "verify"
    /\ \E d \in Diffs(samples_of(call, window)) :
          LET v == verify_of(call, window, d)
          IN  /\ events' = Append(events, [op |-> "verify", x |-> 0, y |-> v.n,
                                           val |-> v.val])
              /\ result' = v.val
    /\ status' = "returned"
    /\ UNCHANGED <<window, canvasVars, CALIBRATED_POSITIONS, call, pc,
                   buttonDown, shiftDown>>
    /\ OutsideRun

\* draw_simple.open_paint() finds the window or launches Paint (None when no
\* window shows up); draw_simple.focus_paint_window(hwnd) maximizes the
\* window and returns True also when it failed on the way.
RunLaunch ==
    /\ Running
    /\ Program[pc].op \in {"open", "focus_any"}
    /\ IF Program[pc].op = "open"
       THEN \E w \in SessionWindows \cup {NoWindow} :
               /\ window # NoWindow => w = window
               /\ window' = w
               /\ IF w = NoWindow
                  THEN status' = "returned" /\ result' = "False" /\ UNCHANGED <<events, pc>>
                  ELSE /\ events' = Append(events, Program[pc])
                       /\ pc' = pc + 1
                       /\ UNCHANGED <<status, result>>
       ELSE /\ window' \in {window, Maximized}
            /\ events' = Append(events, Program[pc])
            /\ pc' = pc + 1
            /\ UNCHANGED <<status, result>>
    /\ UNCHANGED <<canvasVars, CALIBRATED_POSITIONS, call, buttonDown, shiftDown>>
    /\ OutsideRun

PaintFrame ==
    /\ UNCHANGED <<window, canvasVars, CALIBRATED_POSITIONS, buttonDown, shiftDown>>
    /\ OutsideRun

PaintDrawShape ==
    /\ NotRunning
    /\ \E shape \in {"rectangle", "circle"}, b \in PaintBoxes : Started("draw_shape", shape, b)
    /\ PaintFrame

PaintDrawRectangle ==
    /\ NotRunning
    /\ \E b \in PaintBoxes : Started("draw_rectangle", "rectangle", b)
    /\ PaintFrame

PaintDrawCircle ==
    /\ NotRunning
    /\ \E b \in PaintCircles : Started("draw_circle", "circle", b)
    /\ PaintFrame

PaintDrawText ==
    /\ NotRunning
    /\ \E p \in PaintTextPoints : Started("draw_text", "text", Box(p[1], p[2], p[1], p[2]))
    /\ PaintFrame

PaintDrawDirectRectangle ==
    /\ NotRunning
    /\ \E b \in PaintBoxes : Started("draw_direct_rectangle", "rectangle", b)
    /\ PaintFrame

DrawRectangleDirect ==
    /\ NotRunning
    /\ \E b \in PaintBoxes : Started("draw_rectangle_direct", "rectangle", b)
    /\ PaintFrame

DrawSimpleRectangle ==
    /\ NotRunning
    /\ \E b \in PaintBoxes : Started("draw_simple_rectangle", "rectangle", b)
    /\ PaintFrame

DrawSimpleCircle ==
    /\ NotRunning
    /\ \E b \in PaintCircles : Started("draw_simple_circle", "circle", b)
    /\ PaintFrame

\* The labels the select functions are called with.
SelectColors == {"red", "green", "Red", "purple"}

SelectShapes == {"rectangle", "circle", "Circle", "star"}

PaintSelectColor ==
    /\ NotRunning
    /\ \E color_name \in SelectColors : Started("select_color", color_name, Box(0, 0, 0, 0))
    /\ PaintFrame

PaintSelectShapeTool ==
    /\ NotRunning
    /\ \E shape_type \in SelectShapes :
          Started("select_shape_tool", shape_type, Box(0, 0, 0, 0))
    /\ PaintFrame

\* A pyautogui call raises. In select_shape_tool the except clause returns
\* False; inside select_color's loop the pass is given up and the next one
\* starts, the third failure falling through to "return False".
SelectRaise ==
    /\ Running
    /\ Program[pc].op \in PointerOps
    /\ events' = Append(events, Prim("raise", 0, 0))
    /\ IF call.fn = "select_color"
       THEN /\ pc' = 3 + 6 * (((pc - 3) \div 6) + 1)
            /\ UNCHANGED <<status, result>>
       ELSE /\ status' = "returned"
            /\ result' = "False"
            /\ pc' = pc
    /\ UNCHANGED <<window, canvasVars, CALIBRATED_POSITIONS, call, buttonDown, shiftDown>>
    /\ OutsideRun

\* Calls of paint_commands.select_color and select_shape_tool.
SelectInit ==
    GeomIdle /\ FocusIdle /\ CalibIdle /\ BatchIdle
        /\ RunInit({FullProfile}, SessionWindows \cup {NoWindow})

SelectNext ==
    \/ PaintSelectColor
    \/ PaintSelectShapeTool
    \/ RunExternal
    \/ RunStep
    \/ RunReturn
    \/ SelectRaise

SpecSelect == SelectInit /\ [][SelectNext]_vars

\* (x1, y1, x2, y2) of the drags of the three primitives.
DragBoxes == {Box(100, 100, 300, 250), Box(60, 40, 180, 160)}

TesterDrawShape ==
    /\ NotRunning
    /\ \E b \in DragBoxes : Started("tester_draw_shape", "rectangle", b)
    /\ PaintFrame

SimplerDrawRectangleDirect ==
    /\ NotRunning
    /\ \E b \in DragBoxes : Started("simpler_draw_rectangle_direct", "rectangle", b)
    /\ PaintFrame

Win32DrawRectangle ==
    /\ NotRunning
    /\ \E b \in DragBoxes : Started("win32_draw_rectangle", "rectangle", b)
    /\ PaintFrame

\* Calls of the drag primitives of final_paint_tester.py, simpler_draw.py
\* and draw_win32.py.
DragInit == GeomIdle /\ FocusIdle /\ CalibIdle /\ BatchIdle /\ RunInit({FullProfile}, {NoWindow})

DragNext ==
    \/ TesterDrawShape
    \/ SimplerDrawRectangleDirect
    \/ Win32DrawRectangle
    \/ RunLaunch
    \/ RunStep
    \/ RunReturn
    \/ RunRaise
    \/ RunVerify

SpecDrag == DragInit /\ [][DragNext]_vars

\* One of the scripted test runs is started.
ScriptRun ==
    /\ NotRunning
    /\ \E f \in Scripts : Started(f, "", Box(0, 0, 0, 0))
    /\ PaintFrame

InScript == Running /\ call.fn \in Scripts

\* The step goes through; a step whose result is dropped goes on whatever
\* it returned.
ScriptStepDone ==
    /\ InScript
    /\ Program[pc].op \in CheckedSteps \cup UncheckedSteps \cup {"close_paint"}
    /\ events' = Append(events, Program[pc])
    /\ pc' = pc + 1
    /\ UNCHANGED <<call, status, result>>
    /\ PaintFrame

\* A tested step returns False (or None): after open_paint the script
\* returns False; after the others it closes Paint and returns False.
ScriptStepFails ==
    /\ InScript
    /\ Program[pc].op \in CheckedSteps
    /\ events' = IF Program[pc].op = "open_paint" THEN events
                 ELSE events \o close_on_failure
    /\ status' = "returned"
    /\ result' = "False"
    /\ UNCHANGED <<call, pc>>
    /\ PaintFrame

\* A statement after open_paint raises: the except clause closes Paint and
\* returns False.
ScriptRaises ==
    /\ InScript
    /\ pc > 1
    /\ Program[pc].op # "return"
    /\ events' = Append(events, Prim("raise", 0, 0)) \o close_on_exception
    /\ status' = "returned"
    /\ result' = "False"
    /\ UNCHANGED <<call, pc>>
    /\ PaintFrame

ScriptInit == GeomIdle /\ FocusIdle /\ CalibIdle /\ BatchIdle /\ RunInit({FullProfile}, {NoWindow})

ScriptNext ==
    \/ ScriptRun
    \/ ScriptStepDone
    \/ ScriptStepFails
    \/ ScriptRaises
    \/ RunReturn

SpecScript == ScriptInit /\ [][ScriptNext]_vars

\* A session of talk2mcp: execute_tool calls, one after the other.
Init ==
    GeomIdle /\ FocusIdle /\ CalibIdle /\ BatchIdle
        /\ RunInit(Profiles \cup {NoProfile}, {NoWindow})

Next ==
    \/ WindowChange
    \/ ExecOpenPaint
    \/ ExecEnsureFocused
    \/ ExecDrawShapeNoWindow
    \/ ExecDrawShapeStart
    \/ ExecSelectColorStart
    \/ ExecAddTextStart
    \/ ExecSelectColorNoParam
    \/ ExecSaveImage
    \/ ExecClosePaint
    \/ ExecUnknownTool
    \/ RunStep
    \/ RunReturn
    \/ RunRaise

Spec == Init /\ [][Next]_vars

\* Direct calls of the draw functions of tools/paint_commands.py.
PaintInit == GeomIdle /\ FocusIdle /\ CalibIdle /\ BatchIdle /\ RunInit({FullProfile}, {NoWindow})

PaintNext ==
    \/ WindowChange
    \/ PaintDrawShape
    \/ PaintDrawRectangle
    \/ PaintDrawCircle
    \/ PaintDrawText
    \/ PaintDrawDirectRectangle
    \/ DrawRectangleDirect
    \/ DrawSimpleRectangle
    \/ DrawSimpleCircle
    \/ RunLaunch
    \/ RunStep
    \/ RunReturn
    \/ RunRaise
    \/ RunHandlerRelease
    \/ RunExternal
    \/ RunVerify

SpecPaint == PaintInit /\ [][PaintNext]_vars

---------------------------------------------------------------------------
(* talk2mcp.process_llm_response: a response run line by line *)

\* A line of the response: a TOOL line with its tool and parameters, a TOOL
\* line whose parameters are not JSON, or a line of prose.
ToolLine(tool, label, b) == [kind |-> "tool", tool |-> tool, shape |-> label, box |-> b]

BadJsonLine == [kind |-> "badjson", tool |-> "", shape |-> "", box |-> Box(0, 0, 0, 0)]

ProseLine == [kind |-> "prose", tool |-> "", shape |-> "", box |-> Box(0, 0, 0, 0)]

SelectColorLine(color_name) ==
    ToolLine("execute_tool.select_color", color_name, Box(0, 0, 0, 0))

DrawShapeLine(shape, b) == ToolLine("execute_tool.draw_shape", shape, b)

KnownTools ==
    {"execute_tool.open_paint", "execute_tool.ensure_paint_focused",
     "execute_tool.draw_shape", "execute_tool.select_color",
     "execute_tool.add_text_in_paint"}

Batches ==
    { << SelectColorLine("mauve"), SelectColorLine("red"),
         DrawShapeLine("rectangle", Box(300, 200, 700, 600)) >>,
      << ProseLine, SelectColorLine("Blue"), BadJsonLine,
         ToolLine("execute_tool.add_text_in_paint", "text", Box(400, 100, 400, 100)),
         ToolLine("execute_tool.ensure_paint_focused", "", Box(0, 0, 0, 0)) >>,
      << SelectColorLine("red"), SelectColorLine("mauve"),
         ToolLine("make_coffee", "", Box(0, 0, 0, 0)),
         DrawShapeLine("circle", Box(300, 200, 700, 600)) >>,
      << ToolLine("execute_tool.open_paint", "", Box(0, 0, 0, 0)),
         SelectColorLine("pink"),
         DrawShapeLine("rectangle", Box(0, 0, 1000, 1000)),
         SelectColorLine("red") >>,
      << ProseLine, SelectColorLine("red"),
         DrawShapeLine("rectangle", Box(300, 200, 700, 600)) >> }

\* Only the TOOL lines whose parameters parse are counted.
total_commands_parsed == Cardinality({i \in 1..Len(batch) : batch[i].kind = "tool"})

\* sum(1 for line in lines if line.strip().startswith('TOOL:')).
total_commands == Cardinality({i \in 1..Len(batch) : batch[i].kind # "prose"})

\* A command that returned False is run again.
next_line_retry(n, success) == IF success THEN n + 1 ELSE n

\* The for loop goes on to the next line whatever the command returned.
next_line_stop_on_failure(n, success) == IF success THEN n + 1 ELSE Len(batch) + 1

next_line(n, success) == n + 1

AtLine == batch_result = "none" /\ line \in 1..Len(batch)

BatchInit ==
    /\ batch \in Batches
    /\ line = 1
    /\ executed_commands = 0
    /\ successful_commands = 0
    /\ outcomes = << >>
    /\ batch_result = "none"

\* A line of prose is passed over; a TOOL line whose parameters do not parse
\* is counted as met and left ("continue").
BatchPass ==
    /\ AtLine
    /\ status = "idle"
    /\ batch[line].kind \in {"prose", "badjson"}
    /\ executed_commands' = executed_commands + (IF batch[line].kind = "badjson" THEN 1 ELSE 0)
    /\ outcomes' = Append(outcomes, "none")
    /\ line' = next_line(line, TRUE)
    /\ UNCHANGED <<batch, successful_commands, batch_result, runVars, geomVars, calibVars, focusVars>>

\* execute_tool with a tool name it does not know returns False.
BatchUnknownTool ==
    /\ AtLine
    /\ status = "idle"
    /\ batch[line].kind = "tool"
    /\ batch[line].tool \notin KnownTools
    /\ executed_commands' = executed_commands + 1
    /\ outcomes' = Append(outcomes, "False")
    /\ line' = next_line(line, FALSE)
    /\ UNCHANGED <<batch, successful_commands, batch_result, runVars, geomVars, calibVars, focusVars>>

\* executed_commands += 1; success = execute_tool(tool_name, params): the
\* line is counted and its call starts.
BatchExec ==
    /\ AtLine
    /\ status = "idle"
    /\ batch[line].kind = "tool"
    /\ executed_commands' = executed_commands + 1
    /\ \/ ExecOpenPaintCall
       \/ ExecEnsureFocusedCall
       \/ ExecDrawShapeNoWindowCall
       \/ ExecDrawShapeStartCall
       \/ ExecSelectColorStartCall
       \/ ExecAddTextStartCall
    /\ call'.fn = batch[line].tool
    /\ pc' = 0 \/ (call'.shape = batch[line].shape /\ call'.box = batch[line].box)
    /\ UNCHANGED <<batch, line, successful_commands, outcomes, batch_result,
                   geomVars, calibVars, focusVars>>

\* The call has returned: a success is counted and the loop goes on.
BatchTally ==
    /\ AtLine
    /\ status = "returned"
    /\ successful_commands' = successful_commands + (IF result = "True" THEN 1 ELSE 0)
    /\ outcomes' = Append(outcomes, result)
    /\ line' = next_line(line, result = "True")
    /\ status' = "idle"
    /\ UNCHANGED <<batch, executed_commands, batch_result, window, canvasVars,
                   CALIBRATED_POSITIONS, call, pc, events, buttonDown, shiftDown,
                   result, geomVars, calibVars, focusVars>>

\* return successful_commands == total_commands.
BatchReturn ==
    /\ batch_result = "none"
    /\ line > Len(batch)
    /\ status = "idle"
    /\ batch_result' = IF successful_commands = total_commands THEN "True" ELSE "False"
    /\ UNCHANGED <<batch, line, executed_commands, successful_commands, outcomes,
                   runVars, geomVars, calibVars, focusVars>>

SpecBatchInit ==
    GeomIdle /\ FocusIdle /\ CalibIdle /\ BatchInit /\ RunInit(Profiles, {NoWindow, Maximized})

BatchNext ==
    \/ BatchPass
    \/ BatchUnknownTool
    \/ BatchExec
    \/ BatchTally
    \/ BatchReturn
    \/ RunStep
    \/ RunReturn
    \/ RunRaise

SpecBatch == SpecBatchInit /\ [][BatchNext]_vars

---------------------------------------------------------------------------
(* Geometry harness: each function applied once to inputs from bounded sets *)

NormVals ==
    {(1000 * k) \div GridN : k \in 0..GridN}
        \cup {200, 300, 500, 700} \cup {-100, 1200}

Shapes == {"rectangle", "circle", "Circle"}

ProbeOffsets == {ProbeStep * k : k \in (-Spread)..Spread}

XProbes(ci) == {ci.left + d : d \in ProbeOffsets} \cup {ci.right + d : d \in ProbeOffsets}

YProbes(ci) == {ci.top + d : d \in ProbeOffsets} \cup {ci.bottom + d : d \in ProbeOffsets}

\* Second corners for the clamp probes: the centre, the inset corner and a
\* point past the far corner.
FarCorners(ci) ==
    { <<(ci.left + ci.right) \div 2, (ci.top + ci.bottom) \div 2>>,
      <<ci.right - 10, ci.bottom - 10>>,
      <<ci.right + ProbeStep, ci.bottom + ProbeStep>> }

GeomInit == GeomIdle /\ FocusIdle /\ CalibIdle /\ BatchIdle /\ RunInit({FullProfile}, {NoWindow})

\* execute_tool('draw_shape'), lines 212-255, on the canvas of a found window.
ApplyDrawShapeCoords ==
    /\ fn = "none"
    /\ \E w \in Windows, shape \in Shapes :
       \E sx \in NormVals, sy \in NormVals, ex \in NormVals, ey \in NormVals :
          LET c == update_canvas_dimensions(w)
              b == Box(sx, sy, ex, ey)
          IN  /\ fn' = "draw_shape_coords"
              /\ arg' = [window |-> w, shape |-> shape, box |-> b]
              /\ out' = [canvas |-> c, coords |-> draw_shape_coords(shape, c, b)]
    /\ OutsideGeom

\* final_paint_tester.get_canvas_info on a found window.
ApplyGetCanvasInfo ==
    /\ fn = "none"
    /\ \E w \in Windows :
          /\ fn' = "get_canvas_info"
          /\ arg' = [window |-> w]
          /\ out' = get_canvas_info(w)
    /\ OutsideGeom

\* The three clamps, each applied once and then again to its own result.
ClampKinds == {"execute_tool", "draw_shape", "draw_rectangle"}

apply_clamp(kind, w, b) ==
    CASE kind = "execute_tool" -> clamp_box(update_canvas_dimensions(w), b)
      [] kind = "draw_shape" -> draw_shape_clamp(b, get_paint_canvas_info(w))
      [] kind = "draw_rectangle" -> draw_rectangle_clamp(b, get_paint_canvas_info(w))

clamp_canvas(kind, w) ==
    IF kind = "execute_tool"
    THEN canvas_rect(update_canvas_dimensions(w))
    ELSE get_paint_canvas_info(w)

ApplyClamp ==
    /\ fn = "none"
    /\ \E kind \in ClampKinds, w \in Windows :
       \E x \in XProbes(clamp_canvas(kind, w)), y \in YProbes(clamp_canvas(kind, w)),
          far \in FarCorners(clamp_canvas(kind, w)) :
          LET b == Box(x, y, far[1], far[2])
              once == apply_clamp(kind, w, b)
          IN  /\ fn' = "clamp"
              /\ arg' = [kind |-> kind, window |-> w, box |-> b,
                         canvas |-> clamp_canvas(kind, w)]
              /\ out' = [once |-> once, twice |-> apply_clamp(kind, w, once)]
    /\ OutsideGeom

\* Window rectangles of no area: zero width, zero height, both.
DegenerateWindows ==
    { Rect(300, 300, 300, 300), Rect(300, 300, 700, 300), Rect(300, 300, 300, 700) }

NoBounds == [none |-> TRUE]

BoundsFunctions == {"update_canvas_dimensions", "get_paint_canvas_info", "get_canvas_info"}

\* What each bounds function hands back: found says whether the window
\* search met a Paint window, raises whether a call inside the try block
\* raised (the highlight moves of get_paint_canvas_info are pyautogui calls).
compute_bounds(by, found, raises, rect) ==
    CASE by = "update_canvas_dimensions" ->
            IF found
            THEN [ok |-> TRUE, bounds |-> update_canvas_dimensions(rect)]
            ELSE [ok |-> FALSE, bounds |-> NoBounds]
      [] by = "get_paint_canvas_info" ->
            IF found /\ ~raises
            THEN [ok |-> TRUE, bounds |-> get_paint_canvas_info(rect)]
            ELSE [ok |-> FALSE, bounds |-> NoBounds]
      [] OTHER ->
            IF found
            THEN [ok |-> TRUE, bounds |-> get_canvas_info(rect)]
            ELSE [ok |-> FALSE, bounds |-> NoBounds]

\* One of the three bounds functions, on a window of any rectangle or none.
ApplyComputeBounds ==
    /\ fn = "none"
    /\ \E by \in BoundsFunctions, found \in BOOLEAN, raises \in BOOLEAN,
          w \in Windows \cup DegenerateWindows :
          /\ raises => by = "get_paint_canvas_info"
          /\ fn' = "compute_bounds"
          /\ arg' = [by |-> by, found |-> found, raises |-> raises, window |-> w]
          /\ out' = compute_bounds(by, found, raises, w)
    /\ OutsideGeom

GeomNext == ApplyDrawShapeCoords \/ ApplyGetCanvasInfo \/ ApplyClamp \/ ApplyComputeBounds

SpecGeom == GeomInit /\ [][GeomNext]_vars

---------------------------------------------------------------------------
(* Claims on the coordinate mapping, checked under SpecGeom *)

InNormRange(b) ==
    /\ b.sx \in 0..1000 /\ b.sy \in 0..1000
    /\ b.ex \in 0..1000 /\ b.ey \in 0..1000

IsCircleCall == fn = "draw_shape_coords" /\ out.coords.shape_type = "circle"

\* C2: for normalized corners in 0..1000 and canvas globals set by
\* update_canvas_dimensions, the start and end points execute_tool finally
\* drags between lie in [CANVAS_X, CANVAS_X + CANVAS_WIDTH] x
\* [CANVAS_Y, CANVAS_Y + CANVAS_HEIGHT].
C2_DragWithinCanvas ==
    (fn = "draw_shape_coords" /\ InNormRange(arg.box)) =>
        LET c == out.canvas
            p == out.coords.pt
        IN  /\ c.x <= p.sx /\ p.sx <= c.x + c.w
            /\ c.x <= p.ex /\ p.ex <= c.x + c.w
            /\ c.y <= p.sy /\ p.sy <= c.y + c.h
            /\ c.y <= p.ey /\ p.ey <= c.y + c.h

\* A circle whose box was changed both by the clamp and by the second
\* aspect correction.
C2_Witness ==
    /\ IsCircleCall
    /\ InNormRange(arg.box)
    /\ out.coords.clamped # out.coords.raw
    /\ out.coords.pt # out.coords.clamped

\* C3: the screen box dragged for a circle is square up to rounding:
\* |(end_x - start_x) - (end_y - start_y)| <= 1, whatever the canvas size.
C3_CircleAspect ==
    IsCircleCall =>
        LET p == out.coords.pt
        IN  Abs((p.ex - p.sx) - (p.ey - p.sy)) <= 1

\* A circle whose clamped box is not square and has both sides positive.
C3_Witness ==
    /\ IsCircleCall
    /\ LET q == out.coords.clamped
       IN  /\ q.ex - q.sx > 0
           /\ q.ey - q.sy > 0
           /\ Abs((q.ex - q.sx) - (q.ey - q.sy)) > 1

IsScenarioC ==
    /\ fn = "draw_shape_coords"
    /\ arg.shape = "circle"
    /\ arg.box = Box(300, 200, 700, 200)

\* C4 as stated: the circle with corners (300,200)-(700,200) becomes a
\* 400 by 400 box before scaling.
C4_ScenarioC_400 ==
    IsScenarioC =>
        /\ out.coords.rel.ex - out.coords.rel.sx = 400
        /\ out.coords.rel.ey - out.coords.rel.sy = 400

\* C4 (amended): the circle with corners (300,200)-(700,200) becomes the
\* 0 by 0 box at its midpoint (500,200): the radius is half the smaller
\* span, min(400, 0) // 2 = 0.
C4_ScenarioC_Degenerate ==
    IsScenarioC => out.coords.rel = Box(500, 200, 500, 200)

C4_Witness == IsScenarioC /\ out.coords.pt.ex = out.coords.pt.sx

\* C5: the normalized correction of a circle is centred on the integer
\* midpoint of the two corners, its half-side is half the smaller span
\* (integer division), and its width equals its height.
C5_CircleNormalized ==
    IsCircleCall =>
        LET b == arg.box
            r == out.coords.rel
            half == Min(Abs(b.ex - b.sx), Abs(b.ey - b.sy)) \div 2
        IN  /\ r.sx + r.ex = 2 * ((b.sx + b.ex) \div 2)
            /\ r.sy + r.ey = 2 * ((b.sy + b.ey) \div 2)
            /\ r.ex - r.sx = 2 * half
            /\ r.ey - r.sy = 2 * half
            /\ r.ex - r.sx = r.ey - r.sy

\* A circle given with unequal, non-zero spans and reversed corners.
C5_Witness ==
    /\ IsCircleCall
    /\ arg.box.ex < arg.box.sx
    /\ arg.box.ey # arg.box.sy
    /\ Abs(arg.box.ex - arg.box.sx) # Abs(arg.box.ey - arg.box.sy)
    /\ out.coords.rel.ex > out.coords.rel.sx

\* C6: get_canvas_info maps the window (l, t, r, b) to
\* (l + 50, t + 160, r - 30, b - 30); (0, 0, 1920, 1080) gives
\* (50, 160, 1890, 1050).
C6_CanvasFromWindow ==
    fn = "get_canvas_info" =>
        LET w == arg.window
        IN  /\ out = Bounds(w.l + 50, w.t + 160, w.r - 30, w.b - 30)
            /\ w = Rect(0, 0, 1920, 1080) => out = Bounds(50, 160, 1890, 1050)

C6_Witness ==
    /\ fn = "get_canvas_info"
    /\ arg.window = Rect(0, 0, 1920, 1080)
    /\ out.top = 160

\* q is the rational num / 1000 truncated towards zero.
TruncatedThousandth(q, num) ==
    IF num >= 0
    THEN 1000 * q <= num /\ num < 1000 * q + 1000
    ELSE 1000 * q >= num /\ num > 1000 * q - 1000

\* C7: before clamping, a normalized coordinate v maps to
\* origin + v * extent / 1000 truncated to an integer; on the canvas
\* (50, 160, 1840, 890) the point (500, 500) maps to (970, 605).
C7_ToScreen ==
    fn = "draw_shape_coords" =>
        LET c == out.canvas
            r == out.coords.rel
            s == out.coords.raw
        IN  /\ TruncatedThousandth(s.sx, 1000 * c.x + r.sx * c.w)
            /\ TruncatedThousandth(s.ex, 1000 * c.x + r.ex * c.w)
            /\ TruncatedThousandth(s.sy, 1000 * c.y + r.sy * c.h)
            /\ TruncatedThousandth(s.ey, 1000 * c.y + r.ey * c.h)
            /\ (c = Canvas(50, 160, 1840, 890) /\ r.sx = 500 /\ r.sy = 500)
                   => (s.sx = 970 /\ s.sy = 605)

C7_Witness ==
    /\ fn = "draw_shape_coords"
    /\ out.canvas = Canvas(50, 160, 1840, 890)
    /\ out.coords.rel.sx = 500 /\ out.coords.rel.sy = 500
    /\ out.coords.raw.sx = 970 /\ out.coords.raw.sy = 605

\* C8: each of the three clamps is idempotent: clamping an already clamped
\* box returns it unchanged, for every box and every canvas.
C8_ClampIdempotent == fn = "clamp" => out.twice = out.once

\* The conditional inset clamp of draw_rectangle moved a box that had one
\* corner outside the canvas, on a canvas too narrow for the inset.
C8_Witness ==
    /\ fn = "clamp"
    /\ arg.kind = "draw_rectangle"
    /\ out.once # arg.box
    /\ arg.canvas.bottom - 10 < arg.canvas.top + 10

Degenerate(rect) == rect.r - rect.l <= 0 \/ rect.b - rect.t <= 0

BoundsOfDegenerate ==
    fn = "compute_bounds" /\ arg.found /\ ~arg.raises /\ Degenerate(arg.window)

\* C18: computing canvas bounds from a window rectangle of width <= 0 or
\* height <= 0 fails: the computation reports failure and produces no bounds.
C18_DegenerateFails ==
    BoundsOfDegenerate => ~out.ok /\ out.bounds = NoBounds

\* What the code does instead: a window that was found always yields bounds,
\* update_canvas_dimensions raising the extent to the 100-pixel floor and
\* the two tools functions handing back a box of no positive extent.
DegenerateYieldsBounds ==
    BoundsOfDegenerate =>
        /\ out.ok
        /\ arg.by = "update_canvas_dimensions" =>
              out.bounds.w = 100 \/ out.bounds.h = 100
        /\ arg.by = "get_paint_canvas_info" =>
              out.bounds.width <= 0 \/ out.bounds.height <= 0
        /\ arg.by = "get_canvas_info" =>
              \/ out.bounds.right <= out.bounds.left
              \/ out.bounds.bottom <= out.bounds.top

\* The corners of the bounds each function hands back.
CornersOf(by, b) ==
    CASE by = "update_canvas_dimensions" -> Bounds(b.x, b.y, b.x + b.w, b.y + b.h)
      [] OTHER -> Bounds(b.left, b.top, b.right, b.bottom)

Within(c, rect) ==
    /\ rect.l <= c.left /\ c.left <= rect.r
    /\ rect.l <= c.right /\ c.right <= rect.r
    /\ rect.t <= c.top /\ c.top <= rect.b
    /\ rect.t <= c.bottom /\ c.bottom <= rect.b

BoundsProduced == fn = "compute_bounds" /\ out.ok

\* C26: the canvas rectangle derived from a window's outer rectangle is
\* contained in that outer rectangle, for every window rectangle for which
\* bounds are produced, small windows included.
C26_CanvasInsideWindow ==
    BoundsProduced => Within(CornersOf(arg.by, out.bounds), arg.window)

\* A window with room for the margins and its origin near the screen's.
Roomy(rect) ==
    /\ rect.r - rect.l >= 130 /\ rect.b - rect.t >= 300
    /\ rect.l >= -30 /\ rect.t >= -50

\* For such windows the canvas is inside the window.
RoomyWindowHoldsCanvas ==
    (BoundsProduced /\ Roomy(arg.window)) =>
        Within(CornersOf(arg.by, out.bounds), arg.window)

\* A window of 80 by 120: the canvas of update_canvas_dimensions, raised to
\* 100 by 100, lies below the window and reaches past its right edge.
SmallWindowOverflow ==
    /\ BoundsProduced
    /\ arg.by = "update_canvas_dimensions"
    /\ arg.window = Rect(100, 100, 180, 220)
    /\ out.bounds = Canvas(105, 250, 100, 100)

ZeroSizeWindowBounds ==
    /\ BoundsOfDegenerate
    /\ arg.by = "update_canvas_dimensions"
    /\ arg.window = Rect(300, 300, 300, 300)
    /\ out = [ok |-> TRUE, bounds |-> Canvas(305, 450, 100, 100)]

---------------------------------------------------------------------------
(* Claims on the drag sequences *)

\* The call pressed the button and has not released it since.
UnmatchedPress(ev) ==
    \E i \in 1..Len(ev) :
        /\ ev[i].op = "mouseDown"
        /\ \A j \in (i + 1)..Len(ev) : ev[j].op # "mouseUp"

CallEnded == status \in {"returned", "raised"}

\* C1: when a draw operation has returned, also after a step raised with the
\* button pressed, every button press of the call has been followed by a
\* release.
C1_ReleasedOnReturn == CallEnded => ~UnmatchedPress(events)

\* The same statement for the two functions of paint_commands whose except
\* clause calls mouseUp(), on the paths where that mouseUp() goes through.
PaintHandlersRelease ==
    (/\ CallEnded
     /\ call.fn \in {"draw_shape", "draw_rectangle"}
     /\ events # << >>
     /\ events[Len(events)].op # "raise")
        => ~UnmatchedPress(events)

\* The call in progress has ended with the verdict of its comparison.
Verified ==
    /\ status = "returned"
    /\ events # << >>
    /\ events[Len(events)].op = "verify"

\* The number of samples that comparison found changed.
ChangedSamples == events[Len(events)].y

PerimeterCall == call.fn \in {"draw_rectangle", "draw_rectangle_direct"}

\* C11: the perimeter verification of a drawn rectangle (draw_rectangle,
\* draw_rectangle_direct; samples of stride 10 along the four edges)
\* returns True exactly when more than 5 samples changed: 0 and 5 changed
\* samples give False, 12 give True.
C11_PerimeterThreshold ==
    (Verified /\ PerimeterCall) =>
        /\ (result = "True") <=> (ChangedSamples > 5)
        /\ ChangedSamples \in {0, 5} => result = "False"
        /\ ChangedSamples = 12 => result = "True"
        /\ result \in {"True", "False"}

C11_Witness ==
    /\ Verified
    /\ call.fn = "draw_rectangle"
    /\ Len(samples_of(call, window)) = 80
    /\ ChangedSamples = 5
    /\ result = "False"

\* Scenario D's other half: 12 of 80 perimeter samples changed, success.
TwelveOfEighty ==
    /\ Verified
    /\ PerimeterCall
    /\ Len(samples_of(call, window)) = 80
    /\ ChangedSamples = 12
    /\ result = "True"

\* C12: a draw operation that compares the captures taken before and after
\* the drag never returns True when the comparison found no changed sample.
C12_NoChangeNoSuccess ==
    (Verified /\ ChangedSamples = 0) => result = "False"

\* The same, for the functions whose "no change" branch returns False:
\* every comparing function but the two of simple_draw.
NoChangeFailsOutsideSimpleDraw ==
    (/\ Verified
     /\ ChangedSamples = 0
     /\ call.fn \notin {"draw_simple_rectangle", "draw_simple_circle"})
        => result = "False"

\* draw_simple_rectangle and draw_simple_circle return True whatever the
\* comparison found.
SimpleDrawAlwaysVerified ==
    (Verified /\ call.fn \in {"draw_simple_rectangle", "draw_simple_circle"})
        => result = "True"

---------------------------------------------------------------------------
(* Claims on the input sequences of execute_tool, checked under Spec *)

Ops(ev) == [i \in 1..Len(ev) |-> ev[i].op]

IndexOf(ev, op) == {i \in 1..Len(ev) : ev[i].op = op}

CircleCall == call.fn = "execute_tool.draw_shape" /\ Lower(call.shape) = "circle"

\* The input events of the call: what it emitted, without the marks of the
\* calls that raised.
IsInput(e) == e.op # "raise"

Inputs == SelectSeq(events, IsInput)

\* In ev, Shift goes down before the button, is not released while the
\* button is down, and is released right after the button's release.
ShiftBracketsDrag(ev) ==
    /\ \A d \in IndexOf(ev, "mouseDown") :
           \E k \in IndexOf(ev, "keyDown") :
               k < d /\ \A j \in k..d : ev[j].op # "keyUp"
    /\ \A u \in IndexOf(ev, "mouseUp") :
           /\ \A j \in IndexOf(ev, "keyUp") : j > u
           /\ u < Len(ev) => ev[u + 1].op = "keyUp"

\* C14: when execute_tool draws a circle, Shift is pressed before the mouse
\* button, stays down for the whole drag, and is released after the mouse
\* button, with no other input event between the two releases: no call
\* ends with Shift pressed and not released.
C14_ShiftHeldAroundDrag ==
    CircleCall =>
        /\ ShiftBracketsDrag(Inputs)
        /\ CallEnded => (IndexOf(Inputs, "keyDown") # {} => IndexOf(Inputs, "keyUp") # {})
        /\ CallEnded => ~shiftDown

\* The order of the events alone, on every path, and the release on the
\* calls that return True.
ShiftOrderKept ==
    CircleCall =>
        /\ ShiftBracketsDrag(Inputs)
        /\ (CallEnded /\ result = "True") =>
               /\ ~shiftDown
               /\ \E u \in IndexOf(Inputs, "mouseUp") : Inputs[u + 1].op = "keyUp"

\* C33: after execute_tool returns from a circle draw_shape command, on
\* every path including the ones where a pointer step raises after Shift
\* was pressed, the Shift key is not held down.
C33_ShiftUpOnReturn == (CircleCall /\ status = "returned") => ~shiftDown

\* A call that pressed Shift leaves it down only when a step raised after
\* keyDown.
ShiftHeldOnlyAfterRaise ==
    (CircleCall /\ status = "returned" /\ shiftDown /\ IndexOf(events, "keyDown") # {}) =>
        /\ IndexOf(events, "raise") # {}
        /\ IndexOf(events, "keyUp") = {}
        /\ result = "False"

\* The drag was completed, keyUp('shift') raised: False, Shift down.
ShiftLeftHeld ==
    /\ CircleCall
    /\ status = "returned"
    /\ result = "False"
    /\ IndexOf(events, "mouseUp") # {}
    /\ ~buttonDown
    /\ shiftDown

\* The inputs of the call issued while Shift is down.
Shifted ==
    { j \in 1..Len(Inputs) :
        \E k \in IndexOf(Inputs, "keyDown") :
            k < j /\ \A i \in k..j : Inputs[i].op # "keyUp" }

ShiftedButtonOps ==
    { j \in Shifted : Inputs[j].op \in {"click", "mouseDown", "mouseUp"} }

\* C34: while the Shift key is held during a circle draw_shape command, the
\* only mouse button events issued are the press and the release of the
\* drag itself; no other click happens with Shift down.
C34_OnlyDragWhileShifted ==
    CircleCall =>
        /\ \A j \in Shifted : Inputs[j].op # "click"
        /\ Cardinality({ j \in Shifted : Inputs[j].op = "mouseDown" }) <= 1
        /\ Cardinality({ j \in Shifted : Inputs[j].op = "mouseUp" }) <= 1

\* With Shift down the call clicks the canvas centre once, before the drag.
ShiftedClickAtCentre ==
    CircleCall =>
        /\ Cardinality({ j \in Shifted : Inputs[j].op = "click" }) <= 1
        /\ \A j \in Shifted :
              Inputs[j].op = "click" =>
                 /\ Inputs[j].x = CANVAS_X + (CANVAS_WIDTH \div 2)
                 /\ Inputs[j].y = CANVAS_Y + (CANVAS_HEIGHT \div 2)
                 /\ \A d \in IndexOf(Inputs, "mouseDown") : j < d
        /\ Cardinality({ j \in Shifted : Inputs[j].op = "mouseDown" }) <= 1
        /\ Cardinality({ j \in Shifted : Inputs[j].op = "mouseUp" }) <= 1

\* The canvas has just been clicked with Shift down.
CentreClickedShifted ==
    /\ CircleCall
    /\ status = "running"
    /\ shiftDown
    /\ Inputs # << >>
    /\ Inputs[Len(Inputs)].op = "click"
    /\ Len(Inputs) \in Shifted

\* The calibrated label the command cl looks up, after its synonym table.
LabelNeeded(cl) ==
    CASE cl.fn = "execute_tool.draw_shape" -> shape_map(Lower(cl.shape))
      [] cl.fn = "execute_tool.select_color" -> color_map(Lower(cl.shape))
      [] OTHER -> "text tool"

\* The command cl fails for want of its label in the profile pos.
LabelMissing(cl, pos) ==
    /\ cl.fn \in {"execute_tool.draw_shape", "execute_tool.select_color",
                  "execute_tool.add_text_in_paint"}
    /\ cl.shape # MissingParam
    /\ pos # NoProfile
    /\ LabelNeeded(cl) \notin DOMAIN pos

CanvasGlobals == <<CANVAS_X, CANVAS_Y, CANVAS_WIDTH, CANVAS_HEIGHT>>

\* execute_tool is entered.
CommandBegins == NotRunning /\ status' = "running"

MissingLabelNoInput ==
    (LabelMissing(call, CALIBRATED_POSITIONS) /\ status # "idle") =>
        /\ events = << >>
        /\ status = "returned" => result = "False"

\* C35: when a draw_shape, select_color or add_text_in_paint command fails
\* in execute_tool because its shape, colour or text-tool label is not in
\* the calibration profile, no pointer or keyboard event has been emitted
\* by that command and the canvas globals are unchanged.
C35_MissingLabelNoEffect ==
    /\ []MissingLabelNoInput
    /\ [][LabelMissing(call', CALIBRATED_POSITIONS') => UNCHANGED CanvasGlobals]_vars

\* select_color and add_text_in_paint never touch the canvas globals;
\* draw_shape leaves them alone when the window had been found before.
MissingLabelKeepsCanvasSet ==
    [][(/\ LabelMissing(call', CALIBRATED_POSITIONS')
        /\ call'.fn = "execute_tool.draw_shape" => WINDOW_FOUND)
            => UNCHANGED CanvasGlobals]_vars

\* A star asked of a profile without that tool, as the first command on a
\* window just opened: the canvas globals were set, nothing was emitted.
MissingShapeAfterRefresh ==
    /\ call.fn = "execute_tool.draw_shape"
    /\ call.shape = "star"
    /\ LabelMissing(call, CALIBRATED_POSITIONS)
    /\ status = "returned"
    /\ result = "False"
    /\ events = << >>
    /\ WINDOW_FOUND
    /\ CANVAS_WIDTH > 0

\* The clicks, button presses and releases and the typing among the input
\* events, as <<op, x, y>>.
IsGesture(e) == e.op \in {"click", "mouseDown", "mouseUp", "write"}

At(e) == <<e.op, e.x, e.y>>

Gestures ==
    LET g == SelectSeq(Inputs, IsGesture)
    IN  [i \in 1..Len(g) |-> At(g[i])]

CanvasNow == Canvas(CANVAS_X, CANVAS_Y, CANVAS_WIDTH, CANVAS_HEIGHT)

ClickAt(p) == <<"click", p[1], p[2]>>

CentreClick ==
    <<"click", CANVAS_X + (CANVAS_WIDTH \div 2), CANVAS_Y + (CANVAS_HEIGHT \div 2)>>

\* The drag of the draw_shape call in progress.
DragGestures ==
    LET k == draw_shape_coords(call.shape, CanvasNow, call.box)
    IN  << <<"mouseDown", k.pt.sx, k.pt.sy>>, <<"mouseUp", k.pt.ex, k.pt.ey>> >>

\* The deselect sub-sequence: click the selection tool, click an empty
\* canvas corner; the pointer is then moved to a resting position.
DeselectGestures ==
    << ClickAt(CALIBRATED_POSITIONS["select"]), <<"click", CANVAS_X + 20, CANVAS_Y + 20>> >>

RestsAtNeutral ==
    /\ Inputs # << >>
    /\ At(Inputs[Len(Inputs)]) = <<"moveTo", CANVAS_X + 50, CANVAS_Y + 50>>

ColourLabels == {"red", "indigo"}

ShapeSucceeded ==
    call.fn = "execute_tool.draw_shape" /\ status = "returned" /\ result = "True"

\* C15: every successfully executed Shape command emits, in this order, a
\* click on the colour tool position, a click on the shape tool position,
\* a click at the canvas centre, the drag from the start to the end point,
\* and the deselect sub-sequence (click the selection tool, click an empty
\* canvas corner, move to a neutral resting position).
C15_ShapeSequence ==
    ShapeSucceeded =>
        /\ "select" \in DOMAIN CALIBRATED_POSITIONS
        /\ \E colour \in ColourLabels \cap DOMAIN CALIBRATED_POSITIONS :
               Gestures = << ClickAt(CALIBRATED_POSITIONS[colour]),
                             ClickAt(CALIBRATED_POSITIONS[shape_map(Lower(call.shape))]),
                             CentreClick >>
                          \o DragGestures \o DeselectGestures
        /\ RestsAtNeutral

\* What a successful draw_shape call does emit: no colour click, and the
\* deselect sub-sequence only when the profile has a "select" entry.
ShapeSequenceEmitted ==
    ShapeSucceeded =>
        /\ Gestures = << ClickAt(CALIBRATED_POSITIONS[shape_map(Lower(call.shape))]),
                         CentreClick >>
                      \o DragGestures
                      \o (IF "select" \in DOMAIN CALIBRATED_POSITIONS
                          THEN DeselectGestures ELSE << >>)
        /\ "select" \in DOMAIN CALIBRATED_POSITIONS => RestsAtNeutral

TextSucceeded ==
    call.fn = "execute_tool.add_text_in_paint" /\ status = "returned" /\ result = "True"

TextGestures ==
    LET pt == add_text_point(CanvasNow, call.box.sx, call.box.sy)
    IN  << ClickAt(CALIBRATED_POSITIONS["text tool"]), <<"click", pt.x, pt.y>>,
           <<"write", 0, 0>> >>

\* C16: every successfully executed Text command emits a click on the text
\* tool, a click at the target point, the typing of the text, and then the
\* deselect sub-sequence of the shapes: a Text command that returns success
\* has always performed the deselect sub-sequence.
C16_TextSequence ==
    TextSucceeded =>
        /\ "select" \in DOMAIN CALIBRATED_POSITIONS
        /\ Gestures = TextGestures \o DeselectGestures
        /\ RestsAtNeutral

\* What a successful add_text_in_paint call does emit.
TextSequenceEmitted ==
    TextSucceeded =>
        /\ Gestures = TextGestures
                      \o (IF "select" \in DOMAIN CALIBRATED_POSITIONS
                          THEN DeselectGestures ELSE << >>)
        /\ "select" \in DOMAIN CALIBRATED_POSITIONS => RestsAtNeutral

\* The profile key each label of the model stands for: the synonym of the
\* lower-cased label, or the lower-cased label itself.
ColourKey(label) ==
    CASE label = "Blue" -> "indigo"
      [] label = "pink" -> "rose"
      [] OTHER -> label

ShapeKey(label) ==
    CASE label = "circle" -> "oval"
      [] label = "star" -> "five point star"
      [] OTHER -> label

Raised == \E i \in 1..Len(events) : events[i].op = "raise"

ColourReturned == call.fn = "execute_tool.select_color" /\ status = "returned"

ShapeReturned ==
    call.fn = "execute_tool.draw_shape" /\ status = "returned" /\ call.shape # ""

\* C17: select_color resolves its label through the synonym table and then
\* the calibration profile: it succeeds iff the resolved label is a key of
\* the profile (no pyautogui call raising), on success it emits exactly one
\* click, at that key's point, and otherwise it fails without any input.
\* Shape labels resolve the same way, "circle" to "oval".
C17_LabelResolution ==
    /\ ColourReturned =>
           LET key == ColourKey(call.shape)
               known == key \in DOMAIN CALIBRATED_POSITIONS
           IN  /\ result = "True" =>
                      known /\ Gestures = << ClickAt(CALIBRATED_POSITIONS[key]) >>
               /\ ~known => result = "False" /\ Inputs = << >>
               /\ (known /\ ~Raised) => result = "True"
    /\ ShapeReturned =>
           LET key == ShapeKey(call.shape)
               known == key \in DOMAIN CALIBRATED_POSITIONS
           IN  /\ result = "True" =>
                      known /\ Gestures[1] = ClickAt(CALIBRATED_POSITIONS[key])
               /\ ~known => result = "False" /\ Inputs = << >>
               /\ (known /\ ~Raised) => result = "True"

C17_Witness ==
    /\ ColourReturned
    /\ call.shape = "Blue"
    /\ result = "True"
    /\ Gestures = << ClickAt(CALIBRATED_POSITIONS["indigo"]) >>

\* The other cases of the resolution: an unknown colour, a synonym whose
\* target is not calibrated, a circle drawn with the oval tool.
UnknownColourFails ==
    ColourReturned /\ call.shape = "mauve" /\ result = "False" /\ events = << >>

CircleUsesOval ==
    /\ ShapeReturned /\ call.shape = "circle" /\ result = "True"
    /\ Gestures[1] = ClickAt(CALIBRATED_POSITIONS["oval"])

\* The call ran into a missing parameter, a missing profile, a tool name
\* without a branch, or a step that raised.
ProfileUsed ==
    call.fn \in {"execute_tool.draw_shape", "execute_tool.select_color",
                 "execute_tool.add_text_in_paint"}

Faulty ==
    \/ call.fn \in UnknownTools
    \/ call.shape = MissingParam
    \/ ProfileUsed /\ CALIBRATED_POSITIONS = NoProfile
    \/ Raised

\* C25: execute_tool yields an explicit boolean outcome for every tool name
\* and every parameter set: an unknown tool name, a missing required
\* parameter, a missing calibration profile or an exception raised by any
\* step results in False being returned, and no exception propagates to the
\* caller.
C25_AlwaysBoolean ==
    /\ status \in {"idle", "running", "returned"}
    /\ status = "returned" =>
          /\ result \in {"True", "False"}
          /\ Faulty => result = "False"
    /\ status = "running" => result = "none"

\* select_color without 'color_name': the KeyError is caught.
C25_Witness ==
    /\ status = "returned"
    /\ call.fn = "execute_tool.select_color"
    /\ call.shape = MissingParam
    /\ Ops(events) = << "raise" >>
    /\ result = "False"

UnknownToolFalse ==
    status = "returned" /\ call.fn = "make_coffee" /\ result = "False"

\* add_text_in_paint with CALIBRATED_POSITIONS = None: the TypeError of the
\* membership test is caught.
NoProfileFalse ==
    /\ status = "returned"
    /\ call.fn = "execute_tool.add_text_in_paint"
    /\ CALIBRATED_POSITIONS = NoProfile
    /\ Ops(events) = << "raise" >>
    /\ result = "False"

---------------------------------------------------------------------------
(* Claims on the canvas bounds execute_tool converts with, checked under Spec *)

\* execute_tool is inside a draw_shape or add_text_in_paint call that got as
\* far as converting its coordinates; the canvas globals do not change until
\* the call ends.
Converting ==
    /\ status = "running"
    /\ call.fn \in {"execute_tool.draw_shape", "execute_tool.add_text_in_paint"}

\* C19: whenever canvas bounds are used to convert a coordinate of a
\* draw_shape or add_text_in_paint command, after any sequence of commands
\* of a fresh session, their width and height are positive.
C19_PositiveBounds == Converting => CANVAS_WIDTH > 0 /\ CANVAS_HEIGHT > 0

\* draw_shape alone keeps it: it converts only after a successful
\* update_canvas_dimensions, whose extents are at least 100.
DrawShapeBoundsPositive ==
    (status = "running" /\ call.fn = "execute_tool.draw_shape") =>
        WINDOW_FOUND /\ CANVAS_WIDTH >= 100 /\ CANVAS_HEIGHT >= 100

\* add_text_in_paint as the first command of a session converts with the
\* initial globals and clicks at (10, 10).
TextOnUnsetCanvas ==
    /\ call.fn = "execute_tool.add_text_in_paint"
    /\ result = "True"
    /\ ~WINDOW_FOUND
    /\ CanvasNow = Canvas(0, 0, 0, 0)
    /\ \E i \in 1..Len(Gestures) : Gestures[i] = <<"click", 10, 10>>

\* C20: when execute_tool converts the coordinates of a draw_shape or
\* add_text_in_paint command, the canvas bounds it uses are the bounds of
\* the Paint window's current outer rectangle, also after the window was
\* moved, resized or maximized since the last open_paint or
\* ensure_paint_focused.
C20_BoundsOfCurrentWindow ==
    Converting => window # NoWindow /\ CanvasNow = update_canvas_dimensions(window)

\* The only refresh outside open_paint and ensure_paint_focused: draw_shape
\* with WINDOW_FOUND unset. With the flag set, and in add_text_in_paint,
\* the globals are used as they are.
RefreshOnlyWhenUnset ==
    [][(status # "running" /\ status' = "running") =>
         IF call'.fn = "execute_tool.draw_shape" /\ ~WINDOW_FOUND
         THEN CanvasNow' = update_canvas_dimensions(window) /\ WINDOW_FOUND'
         ELSE UNCHANGED canvasVars]_vars

\* A draw_shape that draws on the bounds of a window that has changed since.
StaleBoundsDrawn ==
    /\ call.fn = "execute_tool.draw_shape"
    /\ result = "True"
    /\ window = Rect(0, 0, 1920, 1080)
    /\ CanvasNow = update_canvas_dimensions(Maximized)

---------------------------------------------------------------------------
(* Claims on coordinates outside the canvas, checked under SpecPaint *)

\* The calls each function makes before it looks at its coordinates.
Preliminaries(f) ==
    CASE f = "draw_shape" -> << "focus", "canvas" >>
      [] f = "draw_circle" -> << "focus", "screenshot", "select_shape", "canvas" >>
      [] OTHER -> << "focus", "canvas" >>

\* The canvas the function got: the window is maximized by its focus step.
CanvasGot == get_paint_canvas_info(Maximized)

\* A call of f has ended after its preliminaries went through and no step
\* raised; its coordinates were not all within the canvas.
EndedOutOfCanvas(f) ==
    /\ status = "returned"
    /\ call.fn = f
    /\ Len(events) >= Len(Preliminaries(f))
    /\ SubSeq(Ops(events), 1, Len(Preliminaries(f))) = Preliminaries(f)
    /\ \A i \in 1..Len(events) : events[i].op # "raise"
    /\ ~validate_coordinates(call.box, CanvasGot)

\* The operation went ahead, pressing and releasing within the canvas, and
\* did not return False unless its pixel comparison said so.
CarriedOutClamped ==
    /\ \E i \in 1..Len(events) : events[i].op \in {"mouseDown", "write"}
    /\ \A i \in 1..Len(events) :
           events[i].op \in {"mouseDown", "mouseUp", "write"} =>
               /\ CanvasGot.left <= events[i].x /\ events[i].x <= CanvasGot.right
               /\ CanvasGot.top <= events[i].y /\ events[i].y <= CanvasGot.bottom
    /\ result = "False" => events[Len(events)].op = "verify"

\* draw_shape went past select_shape_tool as well.
ToolSelected ==
    call.fn = "draw_shape" => \E i \in 1..Len(events) : events[i].op = "select_shape"

\* C24: a draw or text operation whose coordinates fall outside the canvas
\* is recovered by clamping them into the canvas and is then carried out; no
\* draw or text operation returns failure merely because a coordinate was
\* out of the canvas bounds.
C24_OutOfBoundsClamped ==
    \A f \in {"draw_shape", "draw_circle", "draw_text"} :
        (EndedOutOfCanvas(f) /\ ToolSelected) => CarriedOutClamped

\* draw_shape does so.
DrawShapeClamps ==
    (EndedOutOfCanvas("draw_shape") /\ ToolSelected) => CarriedOutClamped

\* draw_circle and draw_text return False instead, without any input.
CircleAndTextReject ==
    \A f \in {"draw_circle", "draw_text"} :
        EndedOutOfCanvas(f) =>
            /\ result = "False"
            /\ Len(events) = Len(Preliminaries(f))

DrawShapeClamped ==
    /\ EndedOutOfCanvas("draw_shape")
    /\ call.box = Box(1200, 300, 1600, 500)
    /\ result = "True"
    /\ \E i \in 1..Len(events) : At(events[i]) = <<"mouseUp", CanvasGot.right, 500>>

CircleRejected ==
    /\ EndedOutOfCanvas("draw_circle")
    /\ call.box = Box(-50, 50, 150, 250)
    /\ result = "False"

\* draw_text also rejects a point of the canvas whose y exceeds the canvas
\* height.
TextRejectedOnCanvas ==
    /\ status = "returned"
    /\ call.fn = "draw_text"
    /\ call.box = Box(400, 950, 400, 950)
    /\ validate_coordinates(call.box, CanvasGot)
    /\ Ops(events) = << "focus", "canvas" >>
    /\ result = "False"

---------------------------------------------------------------------------
(* Claims on what follows the pixel comparison, checked under SpecPaint *)

VerifiedDraw == call.fn \in {"draw_rectangle", "draw_circle"}

Presses == Cardinality(IndexOf(events, "mouseDown"))

\* C30: a verification failure never triggers a retry or a rollback: each
\* call of paint_commands.draw_rectangle or draw_circle performs at most
\* one press-drag-release, whatever the pixel comparison found, and the
\* failure is reported to the caller as the return value.
C30_NoRetryAfterVerification ==
    VerifiedDraw =>
        /\ Presses <= 1
        /\ Cardinality(IndexOf(events, "verify")) <= 1
        /\ \A i \in IndexOf(events, "verify") :
              /\ i = Len(events)
              /\ Presses = 1
              /\ status = "returned"
              /\ result = events[i].val
              /\ result \in {"True", "False"}
        /\ status # "raised"

\* A circle whose comparison found no changed sample: one press, False.
C30_Witness ==
    /\ Verified
    /\ call.fn = "draw_circle"
    /\ ChangedSamples = 0
    /\ Presses = 1
    /\ ~buttonDown
    /\ result = "False"

\* A rectangle whose comparison found too few changed samples.
RectangleFailureReturned ==
    /\ Verified
    /\ call.fn = "draw_rectangle"
    /\ ChangedSamples = 0
    /\ Presses = 1
    /\ result = "False"

---------------------------------------------------------------------------
(* Claims on the bounds test of draw_text, checked under SpecPaint *)

\* draw_text has come to its bounds test: focus and canvas info went
\* through, and the call has ended.
TextTested ==
    /\ call.fn = "draw_text"
    /\ status = "returned"
    /\ Len(events) >= 2
    /\ SubSeq(Ops(events), 1, 2) = << "focus", "canvas" >>

\* The point went past the test: the function started on the text tool.
TextAccepted == Len(events) > 2

\* The point lies in [left, right] x [top, bottom].
InCanvasRectangle(x, y, ci) ==
    /\ ci.left <= x /\ x <= ci.left + ci.width
    /\ ci.top <= y /\ y <= ci.top + ci.height

\* C36: paint_commands.draw_text accepts a target point exactly when it
\* lies inside the canvas rectangle [left, right] x [top, bottom] reported
\* by get_paint_canvas_info, where right = left + width and
\* bottom = top + height, and rejects it otherwise.
C36_TextAcceptedIffInCanvas ==
    TextTested =>
        (TextAccepted <=> InCanvasRectangle(call.box.sx, call.box.sy, CanvasGot))

\* The test the code makes: x against [left, width], y against [top, height].
TextAcceptedIffWithinSize ==
    TextTested =>
        /\ TextAccepted <=>
              /\ CanvasGot.left <= call.box.sx /\ call.box.sx <= CanvasGot.width
              /\ CanvasGot.top <= call.box.sy /\ call.box.sy <= CanvasGot.height
        /\ ~TextAccepted => result = "False"
        /\ TextAccepted => InCanvasRectangle(call.box.sx, call.box.sy, CanvasGot)

\* (400, 950) lies between top and bottom and above the canvas height.
TextInsideRejected ==
    /\ TextTested
    /\ ~TextAccepted
    /\ call.box.sy = 950
    /\ CanvasGot.height < 950
    /\ 950 <= CanvasGot.bottom
    /\ InCanvasRectangle(call.box.sx, call.box.sy, CanvasGot)

TextInsideAccepted ==
    /\ TextTested
    /\ TextAccepted
    /\ result = "True"
    /\ call.box.sx = 400 /\ call.box.sy = 300

---------------------------------------------------------------------------
(* Claims on labels without a mapping, checked under SpecSelect *)

ClickedAt == { <<events[i].x, events[i].y>> : i \in IndexOf(events, "click") }

\* The call's label has no entry in the table its function looks it up in.
Unsupported ==
    \/ call.fn = "select_color" /\ call.shape \notin DOMAIN color_positions
    \/ call.fn = "select_shape_tool" /\ Lower(call.shape) \notin DOMAIN shape_positions

\* The positions of the colours and shapes that have a mapping.
MappedPositions ==
    IF call.fn = "select_color"
    THEN { color_xy(l, window) : l \in DOMAIN color_positions }
    ELSE { shape_xy(l, window) : l \in DOMAIN shape_positions }

\* C32: a select operation for a colour or shape label that has no mapping
\* never clicks the position of a different colour or shape:
\* paint_commands.select_color and select_shape_tool called with an
\* unsupported label fail instead of selecting another tool.
C32_UnmappedLabelFails ==
    (Unsupported /\ status = "returned") =>
        /\ result = "False"
        /\ ClickedAt \cap MappedPositions = {}

\* What the code does with such a label: black, or the rectangle.
UnmappedLabelDefaults ==
    (Unsupported /\ status = "returned" /\ result = "True") =>
        IF call.fn = "select_color"
        THEN ClickedAt = { color_xy("black", window) }
        ELSE ClickedAt = { shapes_button(window), shape_xy("rectangle", window) }

\* A label with a mapping selects its own position.
MappedLabelSelected ==
    (~Unsupported /\ status = "returned" /\ result = "True") =>
        IF call.fn = "select_color"
        THEN ClickedAt = { color_xy(call.shape, window) }
        ELSE ClickedAt = { shapes_button(window), shape_xy(Lower(call.shape), window) }

PurpleSelectsBlack ==
    /\ call.fn = "select_color"
    /\ call.shape = "purple"
    /\ status = "returned"
    /\ result = "True"
    /\ IndexOf(events, "raise") = {}
    /\ ClickedAt = { color_xy("black", window) }

StarSelectsRectangle ==
    /\ call.fn = "select_shape_tool"
    /\ call.shape = "star"
    /\ status = "returned"
    /\ result = "True"
    /\ shape_xy("rectangle", window) \in ClickedAt

---------------------------------------------------------------------------
(* Claims on the scripted test runs, checked under SpecScript *)

\* open_paint() returned True in this run.
PaintOpened == IndexOf(events, "open_paint") # {}

\* C37: in the scripted test runs (run_quick_test, draw_shape_grid,
\* draw_complex_scene, run_standalone_test), on every path that returns
\* after Paint was opened successfully, including focus failure, canvas
\* failure, draw failure and a raised exception, close_paint is called
\* before the function returns.
C37_ClosedBeforeReturn ==
    (call.fn \in Scripts /\ status = "returned" /\ PaintOpened) =>
        /\ events[Len(events)].op = "close_paint"
        /\ Cardinality(IndexOf(events, "close_paint")) = 1
        /\ \A i \in IndexOf(events, "open_paint") : i < Len(events)

\* The rectangle of run_quick_test failed: Paint was closed, False returned.
C37_Witness ==
    /\ call.fn = "run_quick_test"
    /\ status = "returned"
    /\ result = "False"
    /\ Ops(events) = << "open_paint", "focus_paint_window", "get_canvas_info", "close_paint" >>

\* A statement of draw_shape_grid raised in the middle of the grid.
GridRaisedAndClosed ==
    /\ call.fn = "draw_shape_grid"
    /\ status = "returned"
    /\ result = "False"
    /\ Len(events) > 8
    /\ events[Len(events) - 1].op = "raise"
    /\ events[Len(events)].op = "close_paint"

---------------------------------------------------------------------------
(* Claims on the drag primitives, checked under SpecDrag *)

DragPrimitives == {"tester_draw_shape", "simpler_draw_rectangle_direct", "win32_draw_rectangle"}

IsButtonOp(o) == o \in {"mouseDown", "mouseUp"}

\* The button events of a trace, in order.
Buttons(ev) == SelectSeq(Ops(ev), IsButtonOp)

\* The call ran to its last statement and nothing raised.
RanWithoutError ==
    /\ status = "returned"
    /\ pc = Len(Program)
    /\ IndexOf(events, "raise") = {}

\* The drag of the call's box: the pointer is put on the start corner, the
\* button goes down, the pointer is moved to the end corner, the button
\* goes up.
DragInOrder(b) ==
    /\ Buttons(events) = << "mouseDown", "mouseUp" >>
    /\ LET d == CHOOSE i \in IndexOf(events, "mouseDown") : TRUE
           u == CHOOSE i \in IndexOf(events, "mouseUp") : TRUE
       IN  /\ 1 < d /\ d + 1 < u
           /\ At(events[d - 1]) = << "moveTo", b.sx, b.sy >>
           /\ \A k \in (d + 1)..(u - 1) : events[k].op = "moveTo"
           /\ At(events[u - 1]) = << "moveTo", b.ex, b.ey >>

DragBox ==
    CASE call.fn = "simpler_draw_rectangle_direct" ->
            simpler_draw_rectangle_direct_box(call, window)
      [] call.fn = "win32_draw_rectangle" -> win32_draw_rectangle_box(call, window)
      [] OTHER -> call.box

\* C31: every drag primitive performs its sub-steps in the order
\* move-to-start, press, move-to-end, release, and on a run without errors
\* issues exactly one button press followed by exactly one button release.
C31_DragOrder ==
    (call.fn \in DragPrimitives /\ RanWithoutError) => DragInOrder(DragBox)

\* The same, for final_paint_tester.draw_shape and draw_win32.draw_rectangle.
SinglePressPrimitives ==
    (call.fn \in {"tester_draw_shape", "win32_draw_rectangle"} /\ RanWithoutError)
        => DragInOrder(DragBox)

\* simpler_draw.draw_rectangle_direct presses twice and releases twice.
SimplerPressesTwice ==
    (call.fn = "simpler_draw_rectangle_direct" /\ RanWithoutError)
        => Buttons(events) = << "mouseDown", "mouseDown", "mouseUp", "mouseUp" >>

DoublePressIssued ==
    /\ call.fn = "simpler_draw_rectangle_direct"
    /\ RanWithoutError
    /\ result = "True"
    /\ Buttons(events) = << "mouseDown", "mouseDown", "mouseUp", "mouseUp" >>

SinglePressIssued ==
    /\ call.fn = "win32_draw_rectangle"
    /\ RanWithoutError
    /\ DragInOrder(DragBox)

---------------------------------------------------------------------------
(* Claims on the batches, checked under SpecBatch *)

BatchDone == batch_result # "none"

\* Line i is a select_color command whose label has no synonym entry and no
\* calibrated position.
UnknownColour(i) ==
    /\ batch[i].kind = "tool"
    /\ batch[i].tool = "execute_tool.select_color"
    /\ color_map(Lower(batch[i].shape)) = Lower(batch[i].shape)
    /\ Lower(batch[i].shape) \notin DOMAIN CALIBRATED_POSITIONS

Succeeded(S) == Cardinality({j \in S : outcomes[j] = "True"})

\* C13: in a batch, a select_color command with an unknown label fails,
\* every later line of the batch is still read and every later TOOL line
\* counted as met, and the success count is that of the other commands:
\* one lower than it would be had the command succeeded.
C13_UnknownColourSkipped ==
    BatchDone =>
        \A i \in 1..Len(batch) :
            UnknownColour(i) =>
                /\ Len(outcomes) = Len(batch)
                /\ outcomes[i] = "False"
                /\ executed_commands = total_commands
                /\ \A j \in (i + 1)..Len(batch) :
                       (batch[j].kind = "tool") <=> (outcomes[j] \in {"True", "False"})
                /\ successful_commands = Succeeded((1..Len(batch)) \ {i})
                /\ successful_commands + 1 <= total_commands
                /\ batch_result = "False"

C13_Witness ==
    /\ BatchDone
    /\ UnknownColour(1)
    /\ batch[1].shape = "mauve"
    /\ outcomes = << "False", "True", "True" >>
    /\ successful_commands = 2

\* The TOOL lines among the first n lines of the response.
ToolLinesIn(n) == Cardinality({i \in 1..n : batch[i].kind # "prose"})

InCall == status # "idle"

\* C21: a TOOL line whose parameter payload is not valid JSON is skipped
\* without executing its tool, the remaining lines are still processed, and
\* the line counts as attempted but not successful; at every point
\* successful_commands <= executed_commands <= total_commands, and the batch
\* result is true iff successful_commands equals total_commands.
C21_BadJsonSkipped ==
    batch # << >> =>
        /\ successful_commands <= executed_commands
        /\ executed_commands <= total_commands
        /\ executed_commands = ToolLinesIn(Len(outcomes)) + (IF InCall THEN 1 ELSE 0)
        /\ successful_commands = Succeeded(1..Len(outcomes))
        /\ \A i \in 1..Len(outcomes) : batch[i].kind = "badjson" => outcomes[i] = "none"
        /\ BatchDone =>
              /\ Len(outcomes) = Len(batch)
              /\ batch_result = "True" <=> successful_commands = total_commands

\* The batch whose third line has a payload that does not parse: the line
\* is counted, nothing is executed for it, and the two lines after it run.
C21_Witness ==
    /\ BatchDone
    /\ Len(batch) = 5
    /\ batch[3].kind = "badjson"
    /\ outcomes = << "none", "True", "none", "True", "True" >>
    /\ executed_commands = 4
    /\ successful_commands = 3
    /\ batch_result = "False"

\* A batch whose every TOOL line succeeded returns True.
BatchAllSucceeded ==
    /\ BatchDone
    /\ total_commands = 2
    /\ successful_commands = 2
    /\ batch_result = "True"

\* execute_tool is entered for the line the loop is at.
CallStarts == ~InCall /\ status' # "idle"

\* The loop leaves the line it is at.
LineLeft == line' # line

BatchStepInOrder ==
    /\ line' \in {line, line + 1}
    /\ LineLeft => status' = "idle" /\ Len(outcomes') = line
    /\ CallStarts =>
          /\ batch[line].kind = "tool"
          /\ call'.fn = batch[line].tool
          /\ Len(outcomes) = line - 1
          /\ line' = line
    /\ (InCall /\ status' = "idle") => line' = line + 1
    /\ events' # events => InCall \/ InCall'
    /\ (LineLeft /\ batch[line].kind = "prose") =>
          /\ outcomes'[line] = "none"
          /\ UNCHANGED <<executed_commands, successful_commands, runVars>>

\* C28: process_llm_response executes the TOOL lines of a response strictly
\* in their textual order, one command finishing before the next begins,
\* ignores every line that does not start with TOOL:, and executes each
\* TOOL line at most once.
C28_InTextualOrder ==
    /\ [](batch # << >> => Len(outcomes) = line - 1)
    /\ [][batch # << >> => BatchStepInOrder]_vars

\* The fourth line's command is running: the prose line and the unparsable
\* line before it left nothing, the second line's command has returned.
C28_Witness ==
    /\ Len(batch) = 5
    /\ batch[1].kind = "prose"
    /\ line = 4
    /\ InCall
    /\ call.fn = "execute_tool.add_text_in_paint"
    /\ outcomes = << "none", "True", "none" >>
    /\ executed_commands = 3

---------------------------------------------------------------------------
(* A calibration session followed by the loads of the profile *)

SpecCalibInit ==
    GeomIdle /\ FocusIdle /\ BatchIdle /\ RunInit({FullProfile}, {NoWindow}) /\ CalibInit

CalibNext ==
    \/ Capture
    \/ SaveProfile
    \/ WritePositionsTxt
    \/ InstallProfile
    \/ LoadPaintPositions
    \/ LoadCalibration

SpecCalib == SpecCalibInit /\ [][CalibNext]_vars

---------------------------------------------------------------------------
(* Claims on the calibration store, checked under SpecCalib *)

OffScreen(x, y) == x < 0 \/ y < 0 \/ x > screen[1] \/ y > screen[2]

\* C9: validate_position(x, y) is true exactly when 0 <= x <= screen_width
\* and 0 <= y <= screen_height: the corners (0, 0) and (screen_width,
\* screen_height) are accepted, a point with a negative coordinate or a
\* coordinate above the screen size is rejected, and a label is stored
\* at the captured point exactly when the point was accepted.
C9_ValidatePosition ==
    sample.taken =>
        /\ sample.valid <=> ~OffScreen(sample.x, sample.y)
        /\ (sample.x = 0 /\ sample.y = 0) => sample.valid
        /\ (sample.x = screen[1] /\ sample.y = screen[2]) => sample.valid
        /\ sample.valid =>
               /\ sample.name \in DOMAIN positions
               /\ positions[sample.name] = Point(sample.x, sample.y, "tuple")

C9_Witness ==
    /\ sample.taken /\ sample.valid
    /\ sample.x = screen[1] /\ sample.y = screen[2]
    /\ "red" \in DOMAIN positions
    /\ \E l \in DOMAIN positions : positions[l].x = 0 /\ positions[l].y = 0

\* The typed names holding an upper-case letter or a surrounding blank.
NotNormalised == {" Red ", "BLUE"}

\* A label with no upper-case letter and no surrounding blank.
LowerStripped(l) == l \notin NotNormalised

ProfileValid ==
    \A l \in DOMAIN positions :
        /\ validate_position(positions[l].x, positions[l].y, screen)
        /\ LowerStripped(l)

RejectedCapture == sample' # sample /\ sample'.taken /\ ~sample'.valid

\* C27: after any sequence of capture events of the calibration session,
\* every point stored in the profile satisfies validate_position and every
\* stored label is lower-cased and stripped; a sample that fails validation
\* leaves the profile unchanged.
C27_CapturesKeepProfileValid ==
    /\ []ProfileValid
    /\ [][RejectedCapture => positions' = positions]_vars

\* A rejected sample after two captures typed as " Red " and "BLUE".
C27_Witness ==
    /\ sample.taken
    /\ ~sample.valid
    /\ sample.x = screen[1] + CoordOver
    /\ DOMAIN positions = {"red", "blue"}
    /\ ~saved.done

\* The session's loader has run on files holding a profile save_profile wrote.
SessionLoadAfterSave == saved.done /\ loaded.by = "load_paint_positions"

\* C10: a profile written by save_profile and then read back by the
\* session's loader, load_paint_positions, yields a mapping equal to the
\* saved one: the same labels and the same (x, y) points.
C10_RoundTrip ==
    SessionLoadAfterSave =>
        loaded.ok /\ SamePoints(loaded.positions, saved.positions)

\* What load_paint_positions returns on the file save_profile wrote, were
\* that file at the path it reads: None, unless the profile is empty.
InstalledProfileUnreadable ==
    (saved.done /\ DOMAIN saved.positions # {})
        => ~load_paint_positions(
                [files EXCEPT ![PositionsTxt] = files[ProfileJson(saved.name)]]).ok

\* json.load of calibration_profiles/default.json gives back the labels
\* and coordinates save_profile("default") wrote, each point as a list.
JsonRoundTrip ==
    (saved.done /\ saved.name = "default" /\ loaded.by = "load_calibration")
        => /\ loaded.ok
           /\ SamePoints(loaded.positions, saved.positions)
           /\ \A l \in DOMAIN loaded.positions : loaded.positions[l].seq = "list"

\* The entries of a positions file that parse, each "name: (x, y)".
RECURSIVE parsable_entries(_, _, _)
parsable_entries(lines, i, acc) ==
    IF i > Len(lines) THEN acc
    ELSE parsable_entries(lines, i + 1,
             IF lines[i].kind = "pair"
             THEN Put(acc, lines[i].name, Point(lines[i].num, lines[i].y, "tuple"))
             ELSE acc)

Unparsable(lines) == {i \in 1..Len(lines) : has_colon(lines[i]) /\ lines[i].kind # "pair"}

SessionLoads == loaded' # loaded /\ loaded'.by = "load_paint_positions"

\* C23: loading a calibration file skips every entry it cannot parse and
\* returns the remaining entries; the load fails only when the file does not
\* exist or when no entry at all could be parsed.
C23_SkipsUnparsable ==
    [][SessionLoads =>
          LET f == files[PositionsTxt]
              good == parsable_entries(f.lines, 1, EmptyProfile)
          IN  IF ~f.exists \/ DOMAIN good = {}
              THEN main_refuses(loaded')
              ELSE loaded'.ok /\ loaded'.positions = good]_vars

\* What the loader does: one entry that does not parse ends the load with
\* None, whatever else the file holds; a file without such an entry loads
\* to its entries.
UnparsableEntryFailsLoad ==
    LET f == files[PositionsTxt]
        r == load_paint_positions(files)
    IN  f.exists =>
            IF Unparsable(f.lines) # {}
            THEN ~r.ok
            ELSE r.ok /\ r.positions = parsable_entries(f.lines, 1, EmptyProfile)

\* The file "red: (900, 60)" followed by an entry that does not parse: the
\* load returned None and the entry for red is lost.
LoadLostEntries ==
    /\ loaded.by = "load_paint_positions"
    /\ ~loaded.ok
    /\ files[PositionsTxt].exists
    /\ "red" \in DOMAIN parsable_entries(files[PositionsTxt].lines, 1, EmptyProfile)
    /\ Unparsable(files[PositionsTxt].lines) = {2}

---------------------------------------------------------------------------
(* Window open and focus: paint_commands.ensure_paint_focused and open_paint,
   draw_simple.focus_paint_window, simpler_draw.focus_window *)

FocusFunctions == {"ensure_paint_focused", "open_paint", "focus_paint_window", "focus_window"}

Bool(v) == IF v THEN "True" ELSE "False"

\* for attempt in range(4).
range_4(n) == n < 4

\* for attempt in range(3): the focus loops of ensure_paint_focused and of
\* focus_paint_window.
range_3(n) == n < 3

\* for attempt in range(5): the rounds of open_paint after the launch; round
\* is attempt + 1.
range_5(n) == n < 5

\* A call of one of the functions starts; the environment decides whether a
\* Paint window exists and whether it is the foreground window. The two
\* focus functions are handed a window their caller has found.
FocusCall ==
    /\ fpc = "done"
    /\ \E f \in FocusFunctions, running \in BOOLEAN, fg \in BOOLEAN :
          /\ f \in {"focus_paint_window", "focus_window"} => running
          /\ fg => running
          /\ focus_fn' = f
          /\ paint_running' = running
          /\ foreground' = fg
          /\ fpc' = IF f \in {"ensure_paint_focused", "open_paint"} THEN "ensure" ELSE "focus"
    /\ attempt' = 0
    /\ round' = 0
    /\ waits' = << >>
    /\ focus_result' = "none"
    /\ UNCHANGED <<geomVars, runVars, calibVars, batchVars>>

\* ensure_paint_focused returns v after made attempts: to its caller, or to
\* open_paint, which returns True on v, launches Paint when its first call
\* failed, and otherwise sleeps 1 + attempt seconds and starts the next
\* round or, after the last one, enumerates the windows.
ensure_returns(v, made) ==
    CASE focus_fn = "ensure_paint_focused" \/ v ->
            /\ fpc' = "done"
            /\ focus_result' = Bool(v)
            /\ attempt' = made
            /\ UNCHANGED <<round, waits>>
      [] round = 0 ->
            /\ fpc' = "launch"
            /\ attempt' = made
            /\ UNCHANGED <<round, waits, focus_result>>
      [] OTHER ->
            /\ waits' = Append(waits, 1 + (round - 1))
            /\ fpc' = IF range_5(round) THEN "ensure" ELSE "enum"
            /\ round' = IF range_5(round) THEN round + 1 ELSE round
            /\ attempt' = IF range_5(round) THEN 0 ELSE made
            /\ UNCHANGED focus_result

\* ensure_paint_focused: find_paint_window() finds no window.
EnsureNoWindow ==
    /\ fpc = "ensure"
    /\ ~paint_running
    /\ attempt = 0
    /\ ensure_returns(FALSE, 0)
    /\ UNCHANGED <<focus_fn, paint_running, foreground>>
    /\ UNCHANGED <<geomVars, runVars, calibVars, batchVars>>

\* One pass of its focus loop: restore, SetForegroundWindow, maximize, then
\* the foreground check; a win32 call that raises ends the pass.
EnsureAttempt ==
    /\ fpc = "ensure"
    /\ paint_running
    /\ range_3(attempt)
    /\ \E fg \in BOOLEAN, raised \in BOOLEAN :
          /\ foreground' = fg
          /\ IF fg /\ ~raised
             THEN ensure_returns(TRUE, attempt + 1)
             ELSE /\ attempt' = attempt + 1
                  /\ UNCHANGED <<fpc, round, waits, focus_result>>
    /\ UNCHANGED <<focus_fn, paint_running>>
    /\ UNCHANGED <<geomVars, runVars, calibVars, batchVars>>

\* The loop is over without a return: ensure_paint_focused returns False.
EnsureExhausted ==
    /\ fpc = "ensure"
    /\ paint_running
    /\ ~range_3(attempt)
    /\ ensure_returns(FALSE, attempt)
    /\ UNCHANGED <<focus_fn, paint_running, foreground>>
    /\ UNCHANGED <<geomVars, runVars, calibVars, batchVars>>

\* open_paint: os.system('start mspaint'), which may or may not bring up a
\* Paint window, then the first round.
OpenPaintLaunch ==
    /\ fpc = "launch"
    /\ \E launched \in BOOLEAN : paint_running' = (paint_running \/ launched)
    /\ fpc' = "ensure"
    /\ round' = 1
    /\ attempt' = 0
    /\ UNCHANGED <<focus_fn, foreground, waits, focus_result>>
    /\ UNCHANGED <<geomVars, runVars, calibVars, batchVars>>

\* open_paint after its rounds: a visible window with Paint in its title
\* makes it return True; otherwise, or when the enumeration raises, False.
OpenPaintEnum ==
    /\ fpc = "enum"
    /\ \E raised \in BOOLEAN : focus_result' = Bool(paint_running /\ ~raised)
    /\ fpc' = "done"
    /\ UNCHANGED <<focus_fn, attempt, round, paint_running, foreground, waits>>
    /\ UNCHANGED <<geomVars, runVars, calibVars, batchVars>>

\* draw_simple.focus_paint_window: one pass of its loop. It returns True on
\* the foreground check and in its except clause; else it clicks and goes
\* on, and after the last pass returns True ("just proceed anyway").
FocusPaintWindowAttempt ==
    /\ fpc = "focus"
    /\ focus_fn = "focus_paint_window"
    /\ range_3(attempt)
    /\ \E fg \in BOOLEAN, raised \in BOOLEAN :
          /\ foreground' = fg
          /\ attempt' = attempt + 1
          /\ IF fg \/ raised \/ ~range_3(attempt + 1)
             THEN fpc' = "done" /\ focus_result' = "True"
             ELSE UNCHANGED <<fpc, focus_result>>
    /\ UNCHANGED <<focus_fn, round, paint_running, waits>>
    /\ UNCHANGED <<geomVars, runVars, calibVars, batchVars>>

\* simpler_draw.focus_window: SetForegroundWindow and a check, then a click
\* on the title bar and a second check; every path returns True.
FocusWindow ==
    /\ fpc = "focus"
    /\ focus_fn = "focus_window"
    /\ \E first \in BOOLEAN, second \in BOOLEAN, raised \in BOOLEAN :
          /\ foreground' = (first \/ (~raised /\ second))
          /\ attempt' = IF first \/ raised THEN 1 ELSE 2
    /\ fpc' = "done"
    /\ focus_result' = "True"
    /\ UNCHANGED <<focus_fn, round, paint_running, waits>>
    /\ UNCHANGED <<geomVars, runVars, calibVars, batchVars>>

FocusNext ==
    \/ FocusCall
    \/ EnsureNoWindow
    \/ EnsureAttempt
    \/ EnsureExhausted
    \/ OpenPaintLaunch
    \/ OpenPaintEnum
    \/ FocusPaintWindowAttempt
    \/ FocusWindow

FocusInit ==
    GeomIdle /\ FocusIdle /\ CalibIdle /\ BatchIdle /\ RunInit({FullProfile}, {NoWindow})

SpecFocus == FocusInit /\ [][FocusNext]_vars

\* Every step of these functions is a bounded sleep or a call that returns.
SpecFocusFair == SpecFocus /\ WF_vars(FocusNext)

---------------------------------------------------------------------------
(* Claims on the window open and focus functions *)

FocusReturned == focus_fn # "none" /\ fpc = "done"

\* C22: a window open or focus operation reports success only when the
\* Paint window is the foreground window at the time it returns; when
\* focusing failed on every attempt it returns failure, never success.
C22_SuccessMeansForeground ==
    (FocusReturned /\ focus_result = "True") => foreground

\* ensure_paint_focused alone keeps it.
EnsureSuccessMeansForeground ==
    (FocusReturned /\ focus_fn = "ensure_paint_focused" /\ focus_result = "True") =>
        foreground

\* open_paint after five rounds that never focused the window it launched.
OpenPaintUnfocusedSuccess ==
    /\ FocusReturned
    /\ focus_fn = "open_paint"
    /\ round = 5
    /\ waits = << 1, 2, 3, 4, 5 >>
    /\ ~foreground
    /\ focus_result = "True"

\* focus_paint_window after three passes that never focused the window.
FocusPaintWindowUnfocusedSuccess ==
    /\ FocusReturned
    /\ focus_fn = "focus_paint_window"
    /\ attempt = 3
    /\ ~foreground
    /\ focus_result = "True"

InEnsure == focus_fn \in {"ensure_paint_focused", "open_paint"}

\* The attempts and rounds stay within their ranges, the sleeps between the
\* rounds of open_paint are 1, 2, ... seconds, one per failed round, and
\* ensure_paint_focused returns False when no attempt focused the window.
RetriesBounded ==
    /\ attempt \in 0..3
    /\ round \in 0..5
    /\ Len(waits) <= 5
    /\ \A k \in 1..Len(waits) : waits[k] = 1 + (k - 1)
    /\ (focus_fn = "open_paint" /\ fpc = "ensure" /\ round >= 1) => Len(waits) = round - 1
    /\ (focus_fn = "open_paint" /\ fpc = "enum") => (round = 5 /\ Len(waits) = 5)
    /\ (FocusReturned /\ focus_fn = "ensure_paint_focused" /\ ~foreground) =>
          focus_result = "False"
    /\ (FocusReturned /\ focus_fn = "ensure_paint_focused" /\ paint_running
          /\ focus_result = "False") => attempt = 3

\* C29: window-focus retries are bounded and always terminate:
\* ensure_paint_focused makes at most 3 focus attempts and returns False when
\* none of them leaves the Paint window in the foreground; open_paint, after
\* launching Paint, calls ensure_paint_focused at most 5 more times, waiting
\* 1 + attempt seconds between rounds, and then returns a result.
C29_FocusRetriesBounded ==
    /\ []RetriesBounded
    /\ (InEnsure /\ fpc # "done") ~> (fpc = "done" /\ focus_result \in {"True", "False"})

\* open_paint returned after five rounds of three attempts each.
C29_Witness ==
    /\ FocusReturned
    /\ focus_fn = "open_paint"
    /\ round = 5
    /\ attempt = 3
    /\ waits = << 1, 2, 3, 4, 5 >>
    /\ focus_result \in {"True", "False"}

\* ensure_paint_focused gave up after three attempts.
EnsureGaveUp ==
    /\ FocusReturned
    /\ focus_fn = "ensure_paint_focused"
    /\ paint_running
    /\ attempt = 3
    /\ ~foreground
    /\ focus_result = "False"

====
